---- MODULE Spec2Model ----
(***************************************************************************)
(* Model of the caching and statistics machinery of seo-optimizer:         *)
(*   backend/analyzer/analyzer.go  (analysis cache, link cache, sweeps)    *)
(*   backend/stats/storage.go      (monthly statistics store, persistence) *)
(* Time is a discrete clock; durations are scaled to a few clock units.    *)
(***************************************************************************)
EXTENDS Integers, Sequences, FiniteSets, TLC

\* ------------------------------------------------------------------ bounds
MaxClock == 2          \* the clock runs 0..MaxClock
MaxCalls == 2          \* IncrementStats calls per goroutine
MaxBoots == 3          \* process starts on one data directory

\* ------------------------------------------- program constants (scaled)
DefaultCacheTTL == 2          \* analyzer.go:121, 30 minutes
DefaultLinkCacheTTL == 1      \* analyzer.go:123, 10 minutes
DefaultMaxCacheSize == 1      \* analyzer.go:124, 1000 entries
DefaultMaxLinkCacheSize == 1  \* analyzer.go:125, 10000 entries
CleanupInterval == 1          \* analyzer.go:126, 5 minutes
WriteInterval == 1            \* storage.go:512, one minute between triggered writes
FirstMonth == 2               \* the month the run starts in (month 1 came before it)

Urls == {"u1", "u2"}              \* pages asked for
Links == {"l1", "l2"}             \* links found on pages
Reqs == {"r1", "r2"}              \* concurrent Analyze calls
Checkers == {"c1", "c2"}          \* concurrent link checks
TTLChoices == {1, 2}              \* arguments of SetCacheTTL
None == [none |-> TRUE]

VARIABLES
  mode,              \* the workload of the run: "cache", "link" or "sweep"
  now,               \* time.Now()
  cache,             \* Analyzer.cache: key -> [value (analysis), timestamp]
  cacheTTL,          \* Analyzer.cacheTTL
  maxCacheSize,      \* Analyzer.maxCacheSize
  linkCache,         \* Analyzer.linkCache: key -> [value (accessible), timestamp]
  maxLinkCacheSize,  \* Analyzer.maxLinkCacheSize
  lastCleanup,       \* Analyzer.lastCleanup
  sweep,             \* the running cleanup(): [pc, now]
  reqs,              \* Analyze calls in progress: [pc, url]
  chk,               \* isLinkAccessibleWithContext calls in progress: [pc, url]
  obs,               \* what the last lookup, store or sweep phase saw and did
  stored,            \* per URL, the entry written by the latest Put
  negStored,         \* per link, the entry behind the latest false verdict
  cacheMutex,        \* Analyzer.cacheMutex: "free", or "setter" holding Lock() across steps
  linkCacheMutex,    \* Analyzer.linkCacheMutex: likewise
  setter,            \* the SetMaxCacheSize or SetMaxLinkCacheSize call in progress
  analyzerShutdown,  \* the Analyzer.Shutdown call: [pc, nilMaps (the maps it has set to nil)]
  statistics,        \* logging.Statistics: its fields, its mutex and the calls under way
  fan,               \* the analyzeLinksWithContext call in progress and its probes
  page               \* the a[href] values of the page and what the collection made of them

locks == <<cacheMutex, linkCacheMutex, setter, analyzerShutdown, statistics>>

cacheVars == <<mode, now, cache, cacheTTL, maxCacheSize, linkCache, maxLinkCacheSize,
               lastCleanup, sweep, reqs, chk, obs, stored,
               negStored, locks, fan, page>>

VARIABLES
  month,             \* getCurrentMonth(), as a month number
  stats,             \* Storage.stats: month -> address of its MonthlyStats
  heap,              \* the MonthlyStats objects, by address
  lastWrite,         \* Storage.lastWrite
  mutex,             \* Storage.mutex: "free", or the goroutine holding Lock() across steps
  writeBuffer,       \* Storage.writeBuffer: queued write requests (capacity 1)
  done,              \* Storage.done is closed
  diskOk,            \* file operations in the data directory succeed
  files,             \* the data directory: contents of each file name
  call,              \* per goroutine: where it is in the store's code
  tally,             \* IncrementStats calls started and returned so far
  seen,              \* the latest results of the readers and when they were taken
  final,             \* what Shutdown was called on and what it returned
  booted             \* what the latest NewStorage read and what it built

storeVars == <<month, stats, heap, lastWrite, mutex, writeBuffer, done, diskOk,
               files, call, tally, seen, final, booted>>

vars == <<cacheVars, storeVars>>

\* --------------------------------------------- the statistics store: data
Mutators == {"g1", "g2"}          \* goroutines calling IncrementStats
Procs == Mutators \cup {"rd", "bg", "sd", "ctor", "cl"}
ArgChoices == {<<1, 0, 0, 0>>}            \* what Analyze passes on a cache hit
EmptyMap == [k \in {} |-> 0]

\* time.Time{}, the value of lastWrite that NewStorage leaves: long ago
ZeroTime == 0 - (WriteInterval + 1)

\* NewMonthlyStats(): zero counters, empty maps, LastUpdated = time.Now()
NewMonthlyStats ==
  [AnalysisCacheHits |-> 0, AnalysisCacheMisses |-> 0, LinkCacheHits |-> 0,
   LinkCacheMisses |-> 0, UniqueVisitors |-> EmptyMap, AnalysisRequests |-> 0,
   ErrorCount |-> 0, PopularUrls |-> EmptyMap, TotalLoadTime |-> 0,
   TotalRequests |-> 0, LastUpdated |-> now]

\* json.Marshal of one MonthlyStats: an object keyed by the json tags
MarshalMonth(b) ==
  [analysis_hits |-> b.AnalysisCacheHits, analysis_misses |-> b.AnalysisCacheMisses,
   link_hits |-> b.LinkCacheHits, link_misses |-> b.LinkCacheMisses,
   unique_visitors |-> b.UniqueVisitors, analysis_requests |-> b.AnalysisRequests,
   error_count |-> b.ErrorCount, popular_urls |-> b.PopularUrls,
   total_load_time |-> b.TotalLoadTime, total_requests |-> b.TotalRequests,
   last_updated |-> b.LastUpdated]

Marshal(copy) == [m \in DOMAIN copy |-> MarshalMonth(copy[m])]

\* a key the decoder does not find leaves the field at its zero value
Field(j, key, zero) == IF key \in DOMAIN j THEN j[key] ELSE zero

\* json.Unmarshal into a MonthlyStats; nil maps are then made empty
UnmarshalMonthOldKeys(j) ==
  [AnalysisCacheHits |-> Field(j, "analysisCacheHits", 0),
   AnalysisCacheMisses |-> Field(j, "analysisCacheMisses", 0),
   LinkCacheHits |-> Field(j, "linkCacheHits", 0),
   LinkCacheMisses |-> Field(j, "linkCacheMisses", 0),
   UniqueVisitors |-> Field(j, "unique_visitors", EmptyMap),
   AnalysisRequests |-> Field(j, "analysis_requests", 0),
   ErrorCount |-> Field(j, "error_count", 0),
   PopularUrls |-> Field(j, "popular_urls", EmptyMap),
   TotalLoadTime |-> Field(j, "total_load_time", 0),
   TotalRequests |-> Field(j, "total_requests", 0),
   LastUpdated |-> Field(j, "last_updated", ZeroTime)]
UnmarshalMonth(j) ==
  [AnalysisCacheHits |-> Field(j, "analysis_hits", 0),
   AnalysisCacheMisses |-> Field(j, "analysis_misses", 0),
   LinkCacheHits |-> Field(j, "link_hits", 0),
   LinkCacheMisses |-> Field(j, "link_misses", 0),
   UniqueVisitors |-> Field(j, "unique_visitors", EmptyMap),
   AnalysisRequests |-> Field(j, "analysis_requests", 0),
   ErrorCount |-> Field(j, "error_count", 0),
   PopularUrls |-> Field(j, "popular_urls", EmptyMap),
   TotalLoadTime |-> Field(j, "total_load_time", 0),
   TotalRequests |-> Field(j, "total_requests", 0),
   LastUpdated |-> Field(j, "last_updated", ZeroTime)]

\* the old statistics.json document, decoded by its own (camel case) keys
UnmarshalOld(j) ==
  [UniqueVisitors |-> Field(j, "uniqueVisitors", EmptyMap),
   AnalysisRequests |-> Field(j, "analysisRequests", 0),
   ErrorCount |-> Field(j, "errorCount", 0),
   PopularUrls |-> Field(j, "popularUrls", EmptyMap),
   AverageLoadTime |-> Field(j, "averageLoadTime", 0),
   TotalRequests |-> Field(j, "totalRequests", 0),
   LastPersisted |-> Field(j, "lastPersisted", ZeroTime),
   AnalysisCacheHits |-> Field(j, "analysisCacheHits", 0),
   AnalysisCacheMisses |-> Field(j, "analysisCacheMisses", 0),
   LinkCacheHits |-> Field(j, "linkCacheHits", 0),
   LinkCacheMisses |-> Field(j, "linkCacheMisses", 0)]

\* map merges used by load and migrateOldStats
KeepOrAdopt(into, from) ==
  [k \in DOMAIN into \cup DOMAIN from |-> IF k \in DOMAIN into THEN into[k] ELSE from[k]]
AddCounts(into, from) ==
  [k \in DOMAIN into \cup DOMAIN from |-> Field(into, k, 0) + Field(from, k, 0)]
Later(a, b) == IF a > b THEN a ELSE b

\* what a file name of the data directory holds
Absent == [kind |-> "absent"]
Empty == [kind |-> "empty"]                 \* zero bytes: created or truncated, not yet written
Garbage == [kind |-> "garbage"]             \* bytes that are no JSON document
Json(body) == [kind |-> "json", body |-> body]

IdleProc ==
  [pc |-> "idle", rw |-> "none", sv |-> "none", fd |-> "none", ptr |-> 0,
   month |-> 0, args |-> <<0, 0, 0, 0>>, data |-> EmptyMap, n |-> 0]

NoTally == [started |-> 0, returned |-> 0, lazy |-> FALSE, overlap |-> FALSE]
NoMonthly == [valid |-> FALSE, found |-> FALSE, value |-> EmptyMap, ref |-> 0, written |-> FALSE]
NoSeen == [valid |-> FALSE, copy |-> EmptyMap, started |-> 0, returned |-> 0, quiet |-> FALSE,
           months |-> << >>, monthly |-> NoMonthly]
NoFinal == [called |-> FALSE, snap |-> EmptyMap, ret |-> "none", started |-> 0]
NoBoot == [n |-> 0, valid |-> FALSE, file |-> Absent, old |-> Absent,
           mem |-> EmptyMap, disk |-> Absent, dir |-> TRUE]

\* no store has been constructed: the process is down, the directory is empty
StoreDown ==
  /\ month = FirstMonth
  /\ stats = EmptyMap
  /\ heap = << >>
  /\ lastWrite = ZeroTime
  /\ mutex = "free"
  /\ writeBuffer = 0
  /\ done = FALSE
  /\ diskOk = TRUE
  /\ files = [tmp |-> Absent, canon |-> Absent, legacy |-> Absent, bak |-> Absent]
  /\ call = [p \in Procs |-> IF p = "ctor" THEN [IdleProc EXCEPT !.pc = "down"] ELSE IdleProc]
  /\ tally = NoTally
  /\ seen = NoSeen
  /\ final = NoFinal
  /\ booted = NoBoot

\* ------------------------------------------------------------ the caches

\* generateCacheKey: md5 of the URL, hex encoded (deterministic, one key per URL)
generateCacheKey(url) == <<"md5", url>>

\* the expiry test of every lookup: time.Since(entry.timestamp) < ttl
FreshLe(ts, ttl) == now - ts <= ttl
FreshEarly(ts, ttl) == now - ts < ttl - 1
Fresh(ts, ttl) == now - ts < ttl

\* the expiry test of cleanup: now.Sub(entry.timestamp) > ttl
Expired(t, ts, ttl) == t - ts > ttl

Without(c, ks) == [k \in DOMAIN c \ ks |-> c[k]]

RemoveExpired(c, t, ttl) ==
  Without(c, {k \in DOMAIN c : Expired(t, c[k].timestamp, ttl)})

\* sort.Slice(entries, Before): any order of the keys with no later entry
\* ahead of an earlier one (map iteration order and the unstable sort decide ties)
SortedOrdersDesc(c) ==
  {ord \in [1..Cardinality(DOMAIN c) -> DOMAIN c] :
     /\ \A i, j \in DOMAIN ord : i # j => ord[i] # ord[j]
     /\ \A i, j \in DOMAIN ord :
          i < j => ~(c[ord[j]].timestamp > c[ord[i]].timestamp)}
SortedOrders(c) ==
  {ord \in [1..Cardinality(DOMAIN c) -> DOMAIN c] :
     /\ \A i, j \in DOMAIN ord : i # j => ord[i] # ord[j]
     /\ \A i, j \in DOMAIN ord :
          i < j => ~(c[ord[j]].timestamp < c[ord[i]].timestamp)}

\* the loop bound of the trim: i < len(entries) - max
TrimCountShort(n, max) == n - max - 1
TrimCount(n, max) == n - max

\* the key sets the trim may delete: the first TrimCount entries of a sorted order
TrimChoices(c, max) ==
  IF Cardinality(DOMAIN c) > max
  THEN {{ord[i] : i \in 1..TrimCount(Cardinality(DOMAIN c), max)} :
          ord \in SortedOrders(c)}
  ELSE {{}}

Stamps(c, ks) == {<<k, c[k].timestamp>> : k \in ks}

NoObs ==
  [kind |-> "none", url |-> "", present |-> FALSE, aged |-> FALSE,
   hit |-> FALSE, ret |-> None, probed |-> FALSE, stat |-> <<0, 0, 0, 0>>,
   due |-> FALSE, lapsed |-> FALSE, expect |-> None, intact |-> FALSE,
   cached |-> FALSE,
   n |-> 0, max |-> 0, deleted |-> {}, kept |-> {}, size |-> 0]

IdleCall == [pc |-> "idle", url |-> ""]
IdleSetter == [pc |-> "idle", fn |-> "", now |-> 0]

\* RLock() and Lock() on the mutex of a cache get through
CacheUnlocked == cacheMutex = "free"
LinkCacheUnlocked == linkCacheMutex = "free"

\* no page at hand
NoPage ==
  [hrefs |-> << >>, next |-> 1, checkedLinks |-> {}, InternalLinks |-> 0,
   ExternalLinks |-> 0, linkURLs |-> << >>]

\* no link fan-out in progress
IdleProbe ==
  [pc |-> "none", hit |-> FALSE, verdict |-> FALSE, late |-> FALSE, aborted |-> FALSE]
IdleFan ==
  [pc |-> "idle", round |-> 0, next |-> 1, probe |-> [g \in {"g1", "g2"} |-> IdleProbe],
   semaphore |-> 0, wg |-> 0, done |-> FALSE, broken |-> 0, cancelled |-> FALSE,
   ret |-> [BrokenLinks |-> 0], racing |-> {}]

\* no SetMax call in progress, both mutexes free
NotShutDown == [pc |-> "idle", nilMaps |-> {}]
Trackers == {"t1", "t2"}                \* handlers calling logging.Statistics
NoStatistics ==
  [ready |-> FALSE, mutex |-> "free", AnalysisRequests |-> 0, ErrorCount |-> 0,
   RequestCount |-> 0, PopularURLs |-> << >>, UniqueVisitors |-> {}, file |-> None,
   pc |-> [t \in Trackers |-> "idle"]]
InitLocks ==
  /\ cacheMutex = "free" /\ linkCacheMutex = "free" /\ setter = IdleSetter
  /\ analyzerShutdown = NotShutDown
  /\ statistics = NoStatistics

InitCache ==
  /\ InitLocks
  /\ fan = IdleFan
  /\ page = NoPage
  /\ now = 0
  /\ cache = << >>
  /\ cacheTTL = DefaultCacheTTL
  /\ maxCacheSize = DefaultMaxCacheSize
  /\ linkCache = << >>
  /\ maxLinkCacheSize = DefaultMaxLinkCacheSize
  /\ lastCleanup = 0
  /\ sweep = [pc |-> "idle", now |-> 0]
  /\ reqs = [r \in Reqs |-> IdleCall]
  /\ chk = [c \in Checkers |-> IdleCall]
  /\ obs = NoObs
  /\ stored = [u \in Urls |-> None]
  /\ negStored = [l \in Links |-> None]

\* the clock advances
Tick ==
  /\ now < MaxClock
  /\ now' = now + 1
  /\ UNCHANGED <<storeVars, page, locks, fan, mode, cache, cacheTTL, maxCacheSize, linkCache, maxLinkCacheSize,
                 lastCleanup, sweep, reqs, chk, obs, stored, negStored>>

\* SetCacheTTL(ttl)
SetCacheTTL(ttl) ==
  /\ CacheUnlocked
  /\ cacheTTL' = ttl
  /\ UNCHANGED <<storeVars, page, locks, fan, mode, now, cache, maxCacheSize, linkCache, maxLinkCacheSize,
                 lastCleanup, sweep, reqs, chk, obs, stored, negStored>>

\* ClearCache(), lines 248-252: a.cache = make(map[string]cacheEntry), a new
\* map whatever the field held
ClearCache ==
  /\ CacheUnlocked
  /\ cache' = << >>
  /\ analyzerShutdown' = [analyzerShutdown EXCEPT !.nilMaps = @ \ {"cache"}]
  /\ UNCHANGED <<storeVars, page, cacheMutex, linkCacheMutex, setter, statistics, fan, mode, now,
                 cacheTTL, maxCacheSize, linkCache, maxLinkCacheSize, lastCleanup, sweep, reqs,
                 chk, obs, stored, negStored>>

\* what a lookup of u in cache c with time-to-live ttl sees and returns: found,
\* hit, the value returned, whether it goes on to the network (probed) and the
\* IncrementStats call it makes; g is the entry last written for u (or None)
LookupObs(kind, u, c, ttl, g) ==
  LET k == generateCacheKey(u)
      found == k \in DOMAIN c
      hit == found /\ Fresh(c[k].timestamp, ttl)
  IN [NoObs EXCEPT
        !.kind = kind, !.url = u, !.present = found,
        !.aged = found /\ now - c[k].timestamp >= ttl,
        !.hit = hit,
        !.ret = IF hit THEN c[k].value ELSE None,
        !.probed = (kind # "iscached") /\ ~hit,
        !.stat = IF kind = "analyze"
                 THEN (IF hit THEN <<1, 0, 0, 0>> ELSE <<0, 1, 0, 0>>)
                 ELSE IF kind = "link"
                 THEN (IF hit THEN <<0, 0, 1, 0>> ELSE <<0, 0, 0, 1>>)
                 ELSE <<0, 0, 0, 0>>,
        !.due = g # None /\ now - g.timestamp < ttl,
        !.lapsed = g # None /\ now - g.timestamp >= ttl,
        !.expect = IF g # None THEN g.value ELSE None,
        !.intact = found /\ g = c[k],
        !.cached = found]

\* IsCached(url)
IsCached(u) ==
  /\ CacheUnlocked
  /\ obs' = LookupObs("iscached", u, cache, cacheTTL, stored[u])
  /\ UNCHANGED <<storeVars, page, locks, fan, mode, now, cache, cacheTTL, maxCacheSize, linkCache,
                 maxLinkCacheSize, lastCleanup, sweep, reqs, chk, stored,
                 negStored>>

\* Analyze(url) with one fetch per URL at a time: a call for a URL that
\* another call is fetching waits for that call
AnalyzeLookupSingleFlight(r, u) ==
  /\ CacheUnlocked
  /\ reqs[r].pc = "idle"
  /\ \A s \in Reqs : ~(reqs[s].pc = "fetch" /\ reqs[s].url = u)
  /\ obs' = LookupObs("analyze", u, cache, cacheTTL, stored[u])
  /\ reqs' = [reqs EXCEPT ![r] = IF obs'.hit THEN IdleCall
                                 ELSE [pc |-> "fetch", url |-> u]]
  /\ sweep' = IF now - lastCleanup > CleanupInterval /\ sweep.pc = "idle"
              THEN [pc |-> "analysis", now |-> now]
              ELSE sweep
  /\ UNCHANGED <<storeVars, page, locks, fan, mode, now, cache, cacheTTL, maxCacheSize, linkCache,
                 maxLinkCacheSize, lastCleanup, chk, stored, negStored>>

\* Analyze(url), up to the cache check: a hit returns the cached result, a miss
\* records the miss and goes on to fetch. An overdue sweep is started first.
AnalyzeLookup(r, u) ==
  /\ CacheUnlocked
  /\ reqs[r].pc = "idle"
  /\ obs' = LookupObs("analyze", u, cache, cacheTTL, stored[u])
  /\ reqs' = [reqs EXCEPT ![r] = IF obs'.hit THEN IdleCall
                                 ELSE [pc |-> "fetch", url |-> u]]
  /\ sweep' = IF now - lastCleanup > CleanupInterval /\ sweep.pc = "idle"
              THEN [pc |-> "analysis", now |-> now]
              ELSE sweep
  /\ UNCHANGED <<storeVars, page, locks, fan, mode, now, cache, cacheTTL, maxCacheSize, linkCache,
                 maxLinkCacheSize, lastCleanup, chk, stored, negStored>>

\* Analyze(url): AnalyzeWithContext returned an error; nothing is stored
AnalyzeFetchFailStores(r) ==
  /\ reqs[r].pc = "fetch"
  /\ reqs' = [reqs EXCEPT ![r] = IdleCall]
  /\ cache' = (generateCacheKey(reqs[r].url) :> [value |-> None, timestamp |-> now]) @@ cache
  /\ obs' = [NoObs EXCEPT !.kind = "error", !.url = reqs[r].url,
               !.cached = generateCacheKey(reqs[r].url) \in DOMAIN cache]
  /\ UNCHANGED <<storeVars, page, locks, fan, mode, now, cacheTTL, maxCacheSize, linkCache,
                 maxLinkCacheSize, lastCleanup, sweep, chk, stored, negStored>>
AnalyzeFetchFail(r) ==
  /\ reqs[r].pc = "fetch"
  /\ reqs' = [reqs EXCEPT ![r] = IdleCall]
  /\ obs' = [NoObs EXCEPT !.kind = "error", !.url = reqs[r].url,
               !.cached = generateCacheKey(reqs[r].url) \in DOMAIN cache]
  /\ UNCHANGED <<storeVars, page, locks, fan, mode, now, cache, cacheTTL, maxCacheSize, linkCache,
                 maxLinkCacheSize, lastCleanup, sweep, chk, stored, negStored>>

\* the result object built by request r at the current time
NewAnalysis(r) == [by |-> r, at |-> now]

\* the store at the end of Analyze: cache[key] = {analysis, time.Now()}
PutEntry(c, k, v) == (k :> [value |-> v, timestamp |-> now]) @@ c

\* Analyze(url): AnalyzeWithContext returned a result, which is stored with
\* the current time, overwriting any entry of the key
AnalyzePut(r) ==
  /\ CacheUnlocked
  /\ reqs[r].pc = "fetch"
  /\ "cache" \notin analyzerShutdown.nilMaps
  /\ LET u == reqs[r].url
         k == generateCacheKey(u)
     IN /\ cache' = PutEntry(cache, k, NewAnalysis(r))
        /\ stored' = [stored EXCEPT
                        ![u] = [value |-> NewAnalysis(r), timestamp |-> now]]
        /\ obs' = [NoObs EXCEPT !.kind = "put", !.url = u,
                     !.ret = NewAnalysis(r), !.cached = TRUE]
  /\ reqs' = [reqs EXCEPT ![r] = IdleCall]
  /\ UNCHANGED <<storeVars, page, locks, fan, mode, now, cacheTTL, maxCacheSize, linkCache, maxLinkCacheSize,
                 lastCleanup, sweep, chk, negStored>>

\* isLinkAccessibleWithContext(url), up to the cache check: a hit records a
\* link-cache hit and returns the cached verdict, a miss records a miss and probes
LinkLookup(c, l) ==
  /\ LinkCacheUnlocked
  /\ chk[c].pc = "idle"
  /\ obs' = LookupObs("link", l, linkCache, DefaultLinkCacheTTL, negStored[l])
  /\ chk' = [chk EXCEPT ![c] = IF obs'.hit THEN IdleCall
                               ELSE [pc |-> "probe", url |-> l]]
  /\ negStored' = IF obs'.hit /\ obs'.ret = FALSE
                  THEN [negStored EXCEPT ![l] = linkCache[generateCacheKey(l)]]
                  ELSE negStored
  /\ UNCHANGED <<storeVars, page, locks, fan, mode, now, cache, cacheTTL, maxCacheSize, linkCache,
                 maxLinkCacheSize, lastCleanup, sweep, reqs, stored>>

\* cacheAndReturnLinkStatus(cacheKey, accessible): the verdict is stored with
\* the current time, whatever it is
cachePositiveOnly(c, k, accessible) ==
  IF accessible THEN (k :> [value |-> TRUE, timestamp |-> now]) @@ c ELSE c
cacheAndReturnLinkStatus(c, k, accessible) ==
  (k :> [value |-> accessible, timestamp |-> now]) @@ c

\* isLinkAccessibleWithContext(url): the probe ended (request error, transport
\* error or a status code); the verdict is stored and returned
LinkProbeDone(c, accessible) ==
  /\ LinkCacheUnlocked
  /\ chk[c].pc = "probe"
  /\ "linkCache" \notin analyzerShutdown.nilMaps
  /\ LET l == chk[c].url
         k == generateCacheKey(l)
     IN /\ linkCache' = cacheAndReturnLinkStatus(linkCache, k, accessible)
        /\ obs' = [NoObs EXCEPT !.kind = "linkret", !.url = l,
                     !.ret = accessible, !.probed = TRUE,
                     !.cached = /\ k \in DOMAIN linkCache'
                                /\ linkCache'[k].value = accessible
                                /\ linkCache'[k].timestamp = now]
        /\ negStored' = IF ~accessible
                        THEN [negStored EXCEPT
                                ![l] = [value |-> FALSE, timestamp |-> now]]
                        ELSE negStored
  /\ chk' = [chk EXCEPT ![c] = IdleCall]
  /\ UNCHANGED <<storeVars, page, locks, fan, mode, now, cache, cacheTTL, maxCacheSize, maxLinkCacheSize,
                 lastCleanup, sweep, reqs, stored>>

\* periodicCleanup: the ticker starts cleanup(), which reads the clock once
SweepStart ==
  /\ sweep.pc = "idle"
  /\ sweep' = [pc |-> "analysis", now |-> now]
  /\ UNCHANGED <<storeVars, page, locks, fan, mode, now, cache, cacheTTL, maxCacheSize, linkCache,
                 maxLinkCacheSize, lastCleanup, reqs, chk, obs, stored,
                 negStored>>

\* what a sweep phase did to cache c1 (expired entries already gone) by deleting D
SweepObs(kind, c1, max, D) ==
  [NoObs EXCEPT !.kind = kind, !.n = Cardinality(DOMAIN c1), !.max = max,
                !.deleted = Stamps(c1, D), !.kept = Stamps(c1, DOMAIN c1 \ D),
                !.size = Cardinality(DOMAIN c1 \ D)]

\* cleanup(), the analysis cache under cacheMutex: expired entries go, then
\* the oldest ones while the cache is over its limit
SweepAnalysis ==
  /\ CacheUnlocked
  /\ sweep.pc = "analysis"
  /\ LET c1 == RemoveExpired(cache, sweep.now, cacheTTL)
     IN \E D \in TrimChoices(c1, maxCacheSize) :
          /\ cache' = Without(c1, D)
          /\ obs' = SweepObs("sweepAnalysis", c1, maxCacheSize, D)
  /\ sweep' = [sweep EXCEPT !.pc = "link"]
  /\ UNCHANGED <<storeVars, page, locks, fan, mode, now, cacheTTL, maxCacheSize, linkCache, maxLinkCacheSize,
                 lastCleanup, reqs, chk, stored, negStored>>

\* cleanup(), the link cache under linkCacheMutex, then lastCleanup = now
SweepLink ==
  /\ LinkCacheUnlocked
  /\ sweep.pc = "link"
  /\ LET c1 == RemoveExpired(linkCache, sweep.now, DefaultLinkCacheTTL)
     IN \E D \in TrimChoices(c1, maxLinkCacheSize) :
          /\ linkCache' = Without(c1, D)
          /\ obs' = SweepObs("sweepLink", c1, maxLinkCacheSize, D)
  /\ lastCleanup' = sweep.now
  /\ sweep' = [sweep EXCEPT !.pc = "idle"]
  /\ UNCHANGED <<storeVars, page, locks, fan, mode, now, cache, cacheTTL, maxCacheSize, maxLinkCacheSize, reqs,
                 chk, stored, negStored>>

\* The two caches share the clock and the sweeper and nothing else (separate
\* maps, separate mutexes), so a run exercises one of them: analysis traffic
\* (mode "cache") or link checks (mode "link"), each with sweeps and the clock.
NextCaches ==
  \/ Tick
  \/ SweepStart
  \/ SweepAnalysis
  \/ SweepLink
  \/ \E ttl \in TTLChoices : mode = "cache" /\ SetCacheTTL(ttl)
  \/ mode = "cache" /\ ClearCache
  \/ \E u \in Urls : mode = "cache" /\ IsCached(u)
  \/ \E r \in Reqs, u \in Urls : mode = "cache" /\ AnalyzeLookup(r, u)
  \/ \E r \in Reqs : mode = "cache" /\ AnalyzeFetchFail(r)
  \/ \E r \in Reqs : mode = "cache" /\ AnalyzePut(r)
  \/ \E c \in Checkers, l \in Links : mode = "link" /\ LinkLookup(c, l)
  \/ \E c \in Checkers, b \in BOOLEAN : mode = "link" /\ LinkProbeDone(c, b)

InitCaches == mode \in {"cache", "link"} /\ InitCache /\ StoreDown

SpecCaches == InitCaches /\ [][NextCaches]_vars

\* ------------------------------------------------- the sweep on any cache
\* Any set of entries with timestamps up to the current time can be in a cache
\* when a sweep starts (Analyze and link checks store without trimming).
SweepKeys == {generateCacheKey(u) : u \in {"u1", "u2", "u3"}}

CachesAt(t, v) ==
  UNION {[ks -> {[value |-> v, timestamp |-> ts] : ts \in 0..t}] :
           ks \in SUBSET SweepKeys}

InitSweep ==
  /\ InitLocks
  /\ fan = IdleFan
  /\ page = NoPage
  /\ mode = "sweep"
  /\ StoreDown
  /\ now \in 0..MaxClock
  /\ cache \in CachesAt(now, [by |-> "r1", at |-> 0])
  /\ linkCache \in CachesAt(now, TRUE)
  /\ cacheTTL = DefaultCacheTTL
  /\ maxCacheSize = DefaultMaxCacheSize
  /\ maxLinkCacheSize = DefaultMaxLinkCacheSize
  /\ lastCleanup = 0
  /\ sweep = [pc |-> "idle", now |-> 0]
  /\ reqs = [r \in Reqs |-> IdleCall]
  /\ chk = [c \in Checkers |-> IdleCall]
  /\ obs = NoObs
  /\ stored = [u \in Urls |-> None]
  /\ negStored = [l \in Links |-> None]

NextSweep ==
  \/ Tick
  \/ SweepStart
  \/ SweepAnalysis
  \/ SweepLink

SpecSweep == InitSweep /\ [][NextSweep]_vars

\* ------------------------------------------ the statistics store: actions
Unlocked == mutex = "free"           \* RLock() and Lock() get through

\* save(), lines 375-398: the copy of the whole map taken under the read lock
statsCopy == [m \in DOMAIN stats |-> heap[stats[m]]]

\* save() with the read lock of the copy kept through the marshalling and
\* the file writes
SaveCopyKeepsLock(p) ==
  /\ call[p].sv = "copy"
  /\ Unlocked
  /\ call' = [call EXCEPT ![p].data = Marshal(statsCopy), ![p].sv = "open"]
  /\ mutex' = p
  /\ UNCHANGED <<cacheVars, month, stats, heap, lastWrite, writeBuffer, done,
                 diskOk, files, tally, seen, final, booted>>

\* save() step 1: copy under s.mutex.RLock(), then json.Marshal
SaveCopy(p) ==
  /\ call[p].sv = "copy"
  /\ Unlocked
  /\ call' = [call EXCEPT ![p].data = Marshal(statsCopy), ![p].sv = "open"]
  /\ UNCHANGED <<cacheVars, month, stats, heap, lastWrite, mutex, writeBuffer, done,
                 diskOk, files, tally, seen, final, booted>>

\* save() step 2: os.WriteFile opens stats.json.tmp with O_CREATE|O_TRUNC;
\* a file of that name left by another save is emptied, not replaced
SaveOpen(p) ==
  /\ call[p].sv = "open"
  /\ IF diskOk
       THEN /\ files' = [files EXCEPT !.tmp = Empty]
            /\ call' = [call EXCEPT ![p].sv = "write", ![p].fd = "tmp"]
       ELSE /\ call' = [call EXCEPT ![p].sv = "err"]
            /\ UNCHANGED files
  /\ UNCHANGED <<cacheVars, month, stats, heap, lastWrite, mutex, writeBuffer, done,
                 diskOk, tally, seen, final, booted>>

\* what a write through a descriptor does to the directory: the bytes land in
\* the file the descriptor was opened on, under whatever name it has by now
\* (serializations of the counters in range all have the same length)
WriteThrough(fd, data) ==
  CASE fd = "tmp" -> [files EXCEPT !.tmp = Json(data)]
    [] fd = "canon" -> [files EXCEPT !.canon = Json(data)]
    [] OTHER -> files

\* save() step 3: os.WriteFile writes the bytes and closes
SaveWrite(p) ==
  /\ call[p].sv = "write"
  /\ IF diskOk
       THEN /\ files' = WriteThrough(call[p].fd, call[p].data)
            /\ call' = [call EXCEPT ![p].sv = "rename", ![p].fd = "none"]
       ELSE /\ call' = [call EXCEPT ![p].sv = "err", ![p].fd = "none"]
            /\ UNCHANGED files
  /\ UNCHANGED <<cacheVars, month, stats, heap, lastWrite, mutex, writeBuffer, done,
                 diskOk, tally, seen, final, booted>>

\* descriptors follow their file when names change
Renamed(fd) == CASE fd = "tmp" -> "canon" [] fd = "canon" -> "gone" [] OTHER -> fd
Unlinked(fd) == IF fd = "tmp" THEN "gone" ELSE fd

\* save() step 4: os.Rename(tmp, stats.json); on error os.Remove(tmp)
SaveRename(p) ==
  /\ call[p].sv = "rename"
  /\ IF diskOk /\ files.tmp # Absent
       THEN /\ files' = [files EXCEPT !.canon = files.tmp, !.tmp = Absent]
            /\ call' = [q \in Procs |->
                          IF q = p THEN [call[q] EXCEPT !.sv = "ok"]
                          ELSE [call[q] EXCEPT !.fd = Renamed(@)]]
       ELSE /\ files' = IF diskOk THEN [files EXCEPT !.tmp = Absent] ELSE files
            /\ call' = [q \in Procs |->
                          IF q = p THEN [call[q] EXCEPT !.sv = "err"]
                          ELSE IF diskOk THEN [call[q] EXCEPT !.fd = Unlinked(@)]
                          ELSE call[q]]
  /\ UNCHANGED <<cacheVars, month, stats, heap, lastWrite, mutex, writeBuffer, done,
                 diskOk, tally, seen, final, booted>>

Saved(p) == call[p].sv \in {"ok", "err"}

\* requestWrite(): the direct save failed; queue a request, or if one is
\* queued already, save once more
RequestWriteFallback(p) ==
  /\ call[p].rw = "first"
  /\ call[p].sv = "err"
  /\ IF writeBuffer = 0
       THEN /\ writeBuffer' = 1
            /\ call' = [call EXCEPT ![p].rw = "queued", ![p].sv = "none"]
       ELSE /\ call' = [call EXCEPT ![p].rw = "retry", ![p].sv = "copy"]
            /\ UNCHANGED writeBuffer
  /\ UNCHANGED <<cacheVars, month, stats, heap, lastWrite, mutex, done, diskOk, files,
                 tally, seen, final, booted>>

\* requestWrite() has returned
RequestWriteReturnedOnSuccess(p) == call[p].rw = "first" /\ call[p].sv = "ok"
RequestWriteReturned(p) ==
  \/ call[p].rw = "first" /\ call[p].sv = "ok"
  \/ call[p].rw = "queued"
  \/ call[p].rw = "retry" /\ Saved(p)

InFlight == {g \in Mutators : call[g].pc # "idle"}

\* IncrementStats, lines 483-488: the month, then the bucket under RLock()
IncLookup(g, a) ==
  /\ call["ctor"].pc = "ready"
  /\ call[g].pc = "idle"
  /\ call[g].n < MaxCalls
  /\ Unlocked
  /\ LET exists == month \in DOMAIN stats IN
     /\ call' = [call EXCEPT ![g].pc = IF exists THEN "update" ELSE "create",
                             ![g].ptr = IF exists THEN stats[month] ELSE 0,
                             ![g].month = month, ![g].args = a, ![g].n = @ + 1]
     /\ tally' = [tally EXCEPT !.started = @ + a[1],
                               !.lazy = @ \/ ~exists,
                               !.overlap = @ \/ InFlight # {}]
  /\ UNCHANGED <<cacheVars, month, stats, heap, lastWrite, mutex, writeBuffer, done,
                 diskOk, files, seen, final, booted>>

\* lines 490-495: no bucket was found; make one and put it in the map
IncCreate(g) ==
  /\ call[g].pc = "create"
  /\ Unlocked
  /\ heap' = Append(heap, NewMonthlyStats)
  /\ stats' = (call[g].month :> Len(heap) + 1) @@ stats
  /\ call' = [call EXCEPT ![g].pc = "update", ![g].ptr = Len(heap) + 1]
  /\ UNCHANGED <<cacheVars, month, lastWrite, mutex, writeBuffer, done, diskOk, files,
                 tally, seen, final, booted>>

\* lines 499-503: the four += and the timestamp
AssignCounters(b, a) ==
  [b EXCEPT !.AnalysisCacheHits = a[1], !.AnalysisCacheMisses = a[2],
            !.LinkCacheHits = a[3], !.LinkCacheMisses = a[4],
            !.LastUpdated = now]
AddCounters(b, a) ==
  [b EXCEPT !.AnalysisCacheHits = @ + a[1], !.AnalysisCacheMisses = @ + a[2],
            !.LinkCacheHits = @ + a[3], !.LinkCacheMisses = @ + a[4],
            !.LastUpdated = now]

\* lines 498-504: the update under Lock(), through the pointer read earlier
IncUpdate(g) ==
  /\ call[g].pc = "update"
  /\ Unlocked
  /\ heap' = [heap EXCEPT ![call[g].ptr] = AddCounters(@, call[g].args)]
  /\ call' = [call EXCEPT ![g].pc = "check"]
  /\ UNCHANGED <<cacheVars, month, stats, lastWrite, mutex, writeBuffer, done, diskOk,
                 files, tally, seen, final, booted>>

Returning(g) == [call[g] EXCEPT !.pc = "idle", !.rw = "none", !.sv = "none"]

\* lines 511-515: is a write due? if not the call returns
IncCheck(g) ==
  /\ call[g].pc = "check"
  /\ Unlocked
  /\ IF now - lastWrite > WriteInterval
       THEN /\ call' = [call EXCEPT ![g].pc = "stamp"]
            /\ UNCHANGED tally
       ELSE /\ call' = [call EXCEPT ![g] = Returning(g)]
            /\ tally' = [tally EXCEPT !.returned = @ + call[g].args[1]]
  /\ UNCHANGED <<cacheVars, month, stats, heap, lastWrite, mutex, writeBuffer, done,
                 diskOk, files, seen, final, booted>>

\* lines 516-519: lastWrite under Lock(), then requestWrite()
IncStamp(g) ==
  /\ call[g].pc = "stamp"
  /\ Unlocked
  /\ lastWrite' = now
  /\ call' = [call EXCEPT ![g].pc = "write", ![g].rw = "first", ![g].sv = "copy"]
  /\ UNCHANGED <<cacheVars, month, stats, heap, mutex, writeBuffer, done, diskOk, files,
                 tally, seen, final, booted>>

\* line 521: requestWrite() is back and IncrementStats returns
IncReturn(g) ==
  /\ call[g].pc = "write"
  /\ RequestWriteReturned(g)
  /\ call' = [call EXCEPT ![g] = Returning(g)]
  /\ tally' = [tally EXCEPT !.returned = @ + call[g].args[1]]
  /\ UNCHANGED <<cacheVars, month, stats, heap, lastWrite, mutex, writeBuffer, done,
                 diskOk, files, seen, final, booted>>

\* GetCurrentStats, lines 530-538: the bucket under RLock(); none: a new empty one
GetLookup ==
  /\ call["ctor"].pc = "ready"
  /\ call["rd"].pc = "idle"
  /\ Unlocked
  /\ IF month \in DOMAIN stats
       THEN /\ call' = [call EXCEPT !["rd"].pc = "counters", !["rd"].ptr = stats[month]]
            /\ seen' = [seen EXCEPT !.valid = FALSE]
       ELSE /\ seen' = [seen EXCEPT !.valid = TRUE, !.copy = NewMonthlyStats,
                                       !.started = tally.started,
                                       !.returned = tally.returned,
                                       !.quiet = InFlight = {}]
            /\ UNCHANGED call
  /\ UNCHANGED <<cacheVars, month, stats, heap, lastWrite, mutex, writeBuffer, done,
                 diskOk, files, tally, final, booted>>

\* lines 541-555: the scalar fields, copied under a second RLock()
GetCounters ==
  /\ call["rd"].pc = "counters"
  /\ Unlocked
  /\ call' = [call EXCEPT !["rd"].pc = "visitors",
                          !["rd"].data = [heap[call["rd"].ptr] EXCEPT
                                            !.UniqueVisitors = EmptyMap,
                                            !.PopularUrls = EmptyMap]]
  /\ seen' = [seen EXCEPT !.started = tally.started, !.returned = tally.returned,
                          !.quiet = InFlight = {}]
  /\ UNCHANGED <<cacheVars, month, stats, heap, lastWrite, mutex, writeBuffer, done,
                 diskOk, files, tally, final, booted>>

\* lines 558-562: the visitors, copied under a third RLock()
GetVisitors ==
  /\ call["rd"].pc = "visitors"
  /\ Unlocked
  /\ call' = [call EXCEPT !["rd"].pc = "urls",
                          !["rd"].data.UniqueVisitors = heap[call["rd"].ptr].UniqueVisitors]
  /\ UNCHANGED <<cacheVars, month, stats, heap, lastWrite, mutex, writeBuffer, done,
                 diskOk, files, tally, seen, final, booted>>

\* lines 564-570: the URL counts under a fourth RLock(), and the return
GetUrls ==
  /\ call["rd"].pc = "urls"
  /\ Unlocked
  /\ LET copy == [call["rd"].data EXCEPT
                    !.PopularUrls = heap[call["rd"].ptr].PopularUrls] IN
     /\ seen' = [seen EXCEPT !.valid = TRUE, !.copy = copy]
     /\ call' = [call EXCEPT !["rd"] = IdleProc]
  /\ UNCHANGED <<cacheVars, month, stats, heap, lastWrite, mutex, writeBuffer, done,
                 diskOk, files, tally, final, booted>>

\* backgroundWriter: the select takes a queued request, a tick, or done
BgWakeNoTicker(c) ==
  /\ call["bg"].pc = "select"
  /\ \/ c = "request" /\ writeBuffer > 0 /\ writeBuffer' = 0
     \/ c = "done" /\ done /\ UNCHANGED writeBuffer
  /\ call' = [call EXCEPT !["bg"].pc = IF c = "done" THEN "final" ELSE "saving",
                          !["bg"].sv = "copy"]
  /\ UNCHANGED <<cacheVars, month, stats, heap, lastWrite, mutex, done, diskOk, files,
                 tally, seen, final, booted>>
BgWake(c) ==
  /\ call["bg"].pc = "select"
  /\ \/ c = "request" /\ writeBuffer > 0 /\ writeBuffer' = 0
     \/ c = "ticker" /\ UNCHANGED writeBuffer
     \/ c = "done" /\ done /\ UNCHANGED writeBuffer
  /\ call' = [call EXCEPT !["bg"].pc = IF c = "done" THEN "final" ELSE "saving",
                          !["bg"].sv = "copy"]
  /\ UNCHANGED <<cacheVars, month, stats, heap, lastWrite, mutex, done, diskOk, files,
                 tally, seen, final, booted>>

\* backgroundWriter: its save() is back; loop, or return after the final one
BgSaved ==
  /\ call["bg"].pc \in {"saving", "final"}
  /\ Saved("bg")
  /\ call' = [call EXCEPT !["bg"].pc = IF @ = "final" THEN "exited" ELSE "select",
                          !["bg"].sv = "none"]
  /\ UNCHANGED <<cacheVars, month, stats, heap, lastWrite, mutex, writeBuffer, done,
                 diskOk, files, tally, seen, final, booted>>

\* Shutdown, line 634: close(s.done), then its own save()
ShutdownClose ==
  /\ call["sd"].pc = "idle"
  /\ call["ctor"].pc = "ready"
  /\ ~done
  /\ done' = TRUE
  /\ call' = [call EXCEPT !["sd"].pc = "saving", !["sd"].sv = "copy"]
  /\ final' = [NoFinal EXCEPT !.called = TRUE, !.snap = Marshal(statsCopy)]
  /\ UNCHANGED <<cacheVars, month, stats, heap, lastWrite, mutex, writeBuffer, diskOk,
                 files, tally, seen, booted>>

\* Shutdown, lines 637-642: the error of its save(), or nil
ShutdownReturn ==
  /\ call["sd"].pc = "saving"
  /\ Saved("sd")
  /\ final' = [final EXCEPT !.ret = call["sd"].sv, !.started = tally.started]
  /\ call' = [call EXCEPT !["sd"].pc = "returned", !["sd"].sv = "none"]
  /\ UNCHANGED <<cacheVars, month, stats, heap, lastWrite, mutex, writeBuffer, done,
                 diskOk, files, tally, seen, booted>>

\* Shutdown called once more, line 634: close() of the closed channel panics,
\* and the panic, which nothing recovers, ends the process
ShutdownAgain ==
  /\ call["sd"].pc = "returned"
  /\ done
  /\ call' = [p \in Procs |->
               CASE p = "sd" -> [IdleProc EXCEPT !.pc = "panicked"]
                 [] p = "ctor" -> [IdleProc EXCEPT !.pc = "down"]
                 [] OTHER -> IdleProc]
  /\ UNCHANGED <<cacheVars, month, stats, heap, lastWrite, mutex, writeBuffer, done,
                 diskOk, files, tally, seen, final, booted>>

\* the data directory stops or resumes taking file operations
DiskToggle ==
  /\ diskOk' = ~diskOk
  /\ UNCHANGED <<cacheVars, month, stats, heap, lastWrite, mutex, writeBuffer, done,
                 files, call, tally, seen, final, booted>>

\* A running store: constructed on an empty directory this month, or on the
\* file of last month (load replaces the map, so this month has no bucket yet)
InitStore ==
  /\ mode = "store"
  /\ InitCache
  /\ month = FirstMonth
  /\ \/ /\ heap = <<NewMonthlyStats>>
        /\ stats = (FirstMonth :> 1)
     \/ /\ heap = <<NewMonthlyStats, [NewMonthlyStats EXCEPT !.AnalysisCacheHits = 1]>>
        /\ stats = (FirstMonth - 1 :> 2)
  /\ lastWrite = ZeroTime
  /\ mutex = "free"
  /\ writeBuffer = 0
  /\ done = FALSE
  /\ diskOk = TRUE
  /\ files = [tmp |-> Absent, canon |-> Json(Marshal(statsCopy)),
              legacy |-> Absent, bak |-> Absent]
  /\ call = [p \in Procs |->
               CASE p = "ctor" -> [IdleProc EXCEPT !.pc = "ready"]
                 [] p = "bg" -> [IdleProc EXCEPT !.pc = "select"]
                 [] OTHER -> IdleProc]
  /\ tally = NoTally
  /\ seen = NoSeen
  /\ final = NoFinal
  /\ booted = NoBoot

\* the goroutines of request handlers: IncrementStats and GetCurrentStats
NextStats ==
  \/ \E g \in Mutators : SaveCopy(g)
  \/ \E g \in Mutators : SaveOpen(g)
  \/ \E g \in Mutators : SaveWrite(g)
  \/ \E g \in Mutators : SaveRename(g)
  \/ \E g \in Mutators : RequestWriteFallback(g)
  \/ \E g \in Mutators, a \in ArgChoices : IncLookup(g, a)
  \/ \E g \in Mutators : IncCreate(g)
  \/ \E g \in Mutators : IncUpdate(g)
  \/ \E g \in Mutators : IncCheck(g)
  \/ \E g \in Mutators : IncStamp(g)
  \/ \E g \in Mutators : IncReturn(g)
  \/ GetLookup
  \/ GetCounters
  \/ GetVisitors
  \/ GetUrls

SpecStats == InitStore /\ [][NextStats]_vars

\* one request handler, the background writer and Shutdown
Flushers == {"g1", "bg", "sd"}

NextFlush ==
  \/ \E p \in Flushers : SaveCopy(p)
  \/ \E p \in Flushers : SaveOpen(p)
  \/ \E p \in Flushers : SaveWrite(p)
  \/ \E p \in Flushers : SaveRename(p)
  \/ RequestWriteFallback("g1")
  \/ \E a \in ArgChoices : IncLookup("g1", a)
  \/ IncCreate("g1")
  \/ IncUpdate("g1")
  \/ IncCheck("g1")
  \/ IncStamp("g1")
  \/ IncReturn("g1")
  \/ \E c \in {"request", "ticker", "done"} : BgWake(c)
  \/ BgSaved
  \/ ShutdownClose
  \/ ShutdownReturn
  \/ ShutdownAgain
  \/ DiskToggle

SpecFlush == InitStore /\ [][NextFlush]_vars


\* --------------------------------- the statistics store: NewStorage, restarts
\* the old statistics.json this model migrates
LegacyDoc == [analysisCacheHits |-> 1, analysisRequests |-> 1, totalRequests |-> 1]
\* a stats.json written last month
LastMonthDoc ==
  (FirstMonth - 1 :> MarshalMonth([NewMonthlyStats EXCEPT !.AnalysisCacheHits = 1,
                                                         !.LastUpdated = 0]))

Booting == {"load", "migrate", "merge", "migrated", "save"}

\* NewStorage, lines 58-73: the Storage value and this month's bucket
BootInit ==
  /\ call["ctor"].pc = "down"
  /\ booted.n < MaxBoots
  /\ heap' = IF diskOk THEN <<NewMonthlyStats>> ELSE << >>
  /\ stats' = IF diskOk THEN (month :> 1) ELSE EmptyMap
  /\ call' = [call EXCEPT !["ctor"].pc = IF diskOk THEN "load" ELSE "failed"]
  /\ booted' = [NoBoot EXCEPT !.n = booted.n + 1, !.old = files.legacy, !.dir = diskOk]
  /\ UNCHANGED <<cacheVars, month, lastWrite, mutex, writeBuffer, done, diskOk, files,
                 tally, seen, final>>

\* load, lines 334-363: a month of the file merged with the bucket in memory
LoadMerge(f, e) ==
  [UniqueVisitors |-> KeepOrAdopt(f.UniqueVisitors, e.UniqueVisitors),
   PopularUrls |-> AddCounts(f.PopularUrls, e.PopularUrls),
   AnalysisRequests |-> f.AnalysisRequests + e.AnalysisRequests,
   ErrorCount |-> f.ErrorCount + e.ErrorCount,
   TotalLoadTime |-> f.TotalLoadTime + e.TotalLoadTime,
   TotalRequests |-> f.TotalRequests + e.TotalRequests,
   AnalysisCacheHits |-> f.AnalysisCacheHits + e.AnalysisCacheHits,
   AnalysisCacheMisses |-> f.AnalysisCacheMisses + e.AnalysisCacheMisses,
   LinkCacheHits |-> f.LinkCacheHits + e.LinkCacheHits,
   LinkCacheMisses |-> f.LinkCacheMisses + e.LinkCacheMisses,
   LastUpdated |-> Later(e.LastUpdated, f.LastUpdated)]

\* load, lines 314-364: tempStats, one new object per month of the file
tempStats(body) ==
  [m \in DOMAIN body |->
     IF m \in DOMAIN stats
       THEN LoadMerge(UnmarshalMonth(body[m]), heap[stats[m]])
       ELSE UnmarshalMonth(body[m])]

Before(S, m) == Cardinality({x \in S : x < m})
InOrder(S) == [i \in 1..Cardinality(S) |-> CHOOSE m \in S : Before(S, m) = i - 1]

\* load with an empty stats.json taken for a missing one
BootLoadLenient ==
  /\ call["ctor"].pc = "load"
  /\ Unlocked
  /\ booted' = [booted EXCEPT !.file = IF diskOk THEN files.canon ELSE Garbage]
  /\ IF diskOk /\ files.canon.kind = "json"
       THEN LET body == files.canon.body
                order == InOrder(DOMAIN body) IN
            /\ heap' = heap \o [i \in DOMAIN order |-> tempStats(body)[order[i]]]
            /\ stats' = [m \in DOMAIN body |-> Len(heap) + 1 + Before(DOMAIN body, m)]
            /\ call' = [call EXCEPT !["ctor"].pc = "migrate"]
       ELSE /\ call' = [call EXCEPT !["ctor"].pc =
                          IF diskOk /\ files.canon \in {Absent, Empty} THEN "migrate" ELSE "failed"]
            /\ UNCHANGED <<heap, stats>>
  /\ UNCHANGED <<cacheVars, month, lastWrite, mutex, writeBuffer, done, diskOk, files,
                 tally, seen, final>>

\* load, lines 301-370: read stats.json, decode, merge, replace the map
BootLoad ==
  /\ call["ctor"].pc = "load"
  /\ Unlocked
  /\ booted' = [booted EXCEPT !.file = IF diskOk THEN files.canon ELSE Garbage]
  /\ IF diskOk /\ files.canon.kind = "json"
       THEN LET body == files.canon.body
                order == InOrder(DOMAIN body) IN
            /\ heap' = heap \o [i \in DOMAIN order |-> tempStats(body)[order[i]]]
            /\ stats' = [m \in DOMAIN body |-> Len(heap) + 1 + Before(DOMAIN body, m)]
            /\ call' = [call EXCEPT !["ctor"].pc = "migrate"]
       ELSE /\ call' = [call EXCEPT !["ctor"].pc =
                          IF diskOk /\ files.canon = Absent THEN "migrate" ELSE "failed"]
            /\ UNCHANGED <<heap, stats>>
  /\ UNCHANGED <<cacheVars, month, lastWrite, mutex, writeBuffer, done, diskOk, files,
                 tally, seen, final>>

\* migrateOldStats, lines 104-131 with a statistics.json that reads and decodes
MigrateRead ==
  /\ call["ctor"].pc = "migrate"
  /\ diskOk
  /\ files.legacy.kind = "json"
  /\ call' = [call EXCEPT !["ctor"].pc = "merge", !["ctor"].data = files.legacy.body]
  /\ UNCHANGED <<cacheVars, month, stats, heap, lastWrite, mutex, writeBuffer, done,
                 diskOk, files, tally, seen, final, booted>>

\* migrateOldStats, lines 164-188: the old document added to this month's bucket
MigrateInto(b, old) ==
  [b EXCEPT !.UniqueVisitors = KeepOrAdopt(@, old.UniqueVisitors),
            !.PopularUrls = AddCounts(@, old.PopularUrls),
            !.AnalysisRequests = @ + old.AnalysisRequests,
            !.ErrorCount = @ + old.ErrorCount,
            !.TotalLoadTime = @ + old.AverageLoadTime * old.TotalRequests,
            !.TotalRequests = @ + old.TotalRequests,
            !.AnalysisCacheHits = @ + old.AnalysisCacheHits,
            !.AnalysisCacheMisses = @ + old.AnalysisCacheMisses,
            !.LinkCacheHits = @ + old.LinkCacheHits,
            !.LinkCacheMisses = @ + old.LinkCacheMisses,
            !.LastUpdated = Later(old.LastPersisted, @)]

\* migrateOldStats, lines 142-191: s.mutex.Lock() (released only on return),
\* the merge, then requestWrite() with the lock still held
MigrateMerge ==
  /\ call["ctor"].pc = "merge"
  /\ Unlocked
  /\ mutex' = "ctor"
  /\ LET old == UnmarshalOld(call["ctor"].data) IN
     IF month \in DOMAIN stats
       THEN /\ heap' = [heap EXCEPT ![stats[month]] = MigrateInto(@, old)]
            /\ UNCHANGED stats
       ELSE /\ heap' = Append(heap, MigrateInto(
                         [NewMonthlyStats EXCEPT !.LastUpdated = ZeroTime], old))
            /\ stats' = (month :> Len(heap) + 1) @@ stats
  /\ call' = [call EXCEPT !["ctor"].pc = "migrated", !["ctor"].rw = "first",
                          !["ctor"].sv = "copy"]
  /\ UNCHANGED <<cacheVars, month, lastWrite, writeBuffer, done, diskOk, files,
                 tally, seen, final, booted>>

\* migrateOldStats returns: at once when there is no statistics.json or it
\* cannot be read or decoded (lines 106-111, 129-131); else after requestWrite(),
\* with the rename to .bak and the deferred Unlock() (lines 193-195).
\* Either way NewStorage goes on to its own save() (line 92).
MigrateReturn ==
  /\ \/ /\ call["ctor"].pc = "migrate"
        /\ ~(diskOk /\ files.legacy.kind = "json")
        /\ UNCHANGED <<files, mutex>>
     \/ /\ call["ctor"].pc = "migrated"
        /\ RequestWriteReturned("ctor")
        /\ files' = IF diskOk
                      THEN [files EXCEPT !.bak = files.legacy, !.legacy = Absent]
                      ELSE files
        /\ mutex' = "free"
  /\ call' = [call EXCEPT !["ctor"].pc = "save", !["ctor"].rw = "none",
                          !["ctor"].sv = "copy"]
  /\ UNCHANGED <<cacheVars, month, stats, heap, lastWrite, writeBuffer, done, diskOk,
                 tally, seen, final, booted>>

\* NewStorage, lines 92-99: the save() is back (an error is only logged),
\* the background writer starts, the store is returned
BootStart ==
  /\ call["ctor"].pc = "save"
  /\ Saved("ctor")
  /\ call' = [call EXCEPT !["ctor"].pc = "ready", !["ctor"].sv = "none",
                          !["bg"].pc = "select"]
  /\ booted' = [booted EXCEPT !.valid = TRUE, !.mem = Marshal(statsCopy),
                              !.disk = files.canon]
  /\ UNCHANGED <<cacheVars, month, stats, heap, lastWrite, mutex, writeBuffer, done,
                 diskOk, files, tally, seen, final>>

\* the process ends (exit, kill, crash, or NewStorage failed): memory is gone,
\* the directory stays as it is
Exit ==
  /\ call["ctor"].pc # "down"
  /\ stats' = EmptyMap
  /\ heap' = << >>
  /\ lastWrite' = ZeroTime
  /\ mutex' = "free"
  /\ writeBuffer' = 0
  /\ done' = FALSE
  /\ call' = [p \in Procs |-> IF p = "ctor" THEN [IdleProc EXCEPT !.pc = "down"] ELSE IdleProc]
  /\ tally' = NoTally
  /\ seen' = NoSeen
  /\ final' = NoFinal
  /\ booted' = [NoBoot EXCEPT !.n = booted.n]
  /\ UNCHANGED <<cacheVars, month, diskOk, files>>

\* a data directory before the first start: nothing, or files left behind
InitBoot ==
  /\ mode = "boot"
  /\ InitCache
  /\ month = FirstMonth
  /\ stats = EmptyMap
  /\ heap = << >>
  /\ lastWrite = ZeroTime
  /\ mutex = "free"
  /\ writeBuffer = 0
  /\ done = FALSE
  /\ diskOk = TRUE
  /\ \E c \in {Absent, Empty, Json(LastMonthDoc)},
        l \in {Absent, Garbage, Json(LegacyDoc)} :
       files = [tmp |-> Absent, canon |-> c, legacy |-> l, bak |-> Absent]
  /\ call = [p \in Procs |-> IF p = "ctor" THEN [IdleProc EXCEPT !.pc = "down"] ELSE IdleProc]
  /\ tally = NoTally
  /\ seen = NoSeen
  /\ final = NoFinal
  /\ booted = NoBoot

\* the steps of the goroutine that runs NewStorage
CtorStep ==
  \/ BootLoad
  \/ MigrateRead
  \/ MigrateMerge
  \/ MigrateReturn
  \/ BootStart
  \/ SaveCopy("ctor")
  \/ SaveOpen("ctor")
  \/ SaveWrite("ctor")
  \/ SaveRename("ctor")
  \/ RequestWriteFallback("ctor")

Starters == {"ctor", "g1"}

NextBoot ==
  \/ BootInit
  \/ BootLoad
  \/ MigrateRead
  \/ MigrateMerge
  \/ MigrateReturn
  \/ BootStart
  \/ Exit
  \/ DiskToggle
  \/ \E p \in Starters : SaveCopy(p)
  \/ \E p \in Starters : SaveOpen(p)
  \/ \E p \in Starters : SaveWrite(p)
  \/ \E p \in Starters : SaveRename(p)
  \/ \E p \in Starters : RequestWriteFallback(p)
  \/ \E a \in ArgChoices : IncLookup("g1", a)
  \/ IncCreate("g1")
  \/ IncUpdate("g1")
  \/ IncCheck("g1")
  \/ IncStamp("g1")
  \/ IncReturn("g1")

SpecBoot == InitBoot /\ [][NextBoot]_vars

\* ----------------------------------------- the statistics store: retention
RetainChoices == {0, 1, 2}        \* arguments of Cleanup

\* the calendar: the month the run starts in is a March of a common year
CalendarMonth(m) == ((m + 12 - FirstMonth + 2) % 12) + 1
DaysIn(c) == CASE c = 2 -> 28 [] c \in {4, 6, 9, 11} -> 30 [] OTHER -> 31
DayChoices == {d \in {1, 28, 29, 30, 31} : d <= DaysIn(CalendarMonth(FirstMonth))}

\* Cleanup, line 579: currentTime.AddDate(0, -1, 0).Format("2006-01"); AddDate
\* takes one from the month, keeps the day and normalises: a day the month
\* before does not have rolls over into the days after it
previousMonth(day) ==
  IF day <= DaysIn(CalendarMonth(month - 1)) THEN month - 1 ELSE month

\* Cleanup, lines 585-589: every key but the two is deleted
Retained(day) == {k \in DOMAIN stats : k = month \/ k = previousMonth(day)}

\* Cleanup(retainMonths), lines 574-596: s.mutex.Lock() with a deferred
\* Unlock(), the deletions, then requestWrite() with the lock still held;
\* when requestWrite() is back, the log line, the Unlock() and the return
Cleanup(retainMonths, day) ==
  /\ \/ /\ call["ctor"].pc = "ready"
        /\ call["cl"].pc = "idle"
        /\ Unlocked
        /\ mutex' = "cl"
        /\ stats' = [k \in Retained(day) |-> stats[k]]
        /\ call' = [call EXCEPT !["cl"].pc = "cleaned", !["cl"].rw = "first",
                                !["cl"].sv = "copy", !["cl"].data = stats,
                                !["cl"].args = <<retainMonths, 0, 0, 0>>]
     \/ /\ call["cl"].pc = "cleaned"
        /\ RequestWriteReturned("cl")
        /\ mutex' = "free"
        /\ call' = [call EXCEPT !["cl"] = IdleProc]
        /\ UNCHANGED stats
  /\ UNCHANGED <<cacheVars, month, heap, lastWrite, writeBuffer, done, diskOk, files,
                 tally, seen, final, booted>>

\* sort.Sort(sort.Reverse(...)): the keys, newest first
Newest(S) == CHOOSE m \in S : \A x \in S : x <= m
RECURSIVE SortedDescending(_)
SortedDescending(S) ==
  IF S = {} THEN << >> ELSE <<Newest(S)>> \o SortedDescending(S \ {Newest(S)})

\* GetAllMonths, lines 610-623: the keys of the map under RLock(), sorted
GetAllMonths ==
  /\ call["ctor"].pc = "ready"
  /\ call["rd"].pc = "idle"
  /\ Unlocked
  /\ seen' = [seen EXCEPT !.months = SortedDescending(DOMAIN stats)]
  /\ UNCHANGED <<cacheVars, month, stats, heap, lastWrite, mutex, writeBuffer, done,
                 diskOk, files, call, tally, final, booted>>

\* a running store holding buckets of this month and of some months before it
InitRetain ==
  /\ mode = "retain"
  /\ InitCache
  /\ month = FirstMonth
  /\ \E old \in SUBSET ((FirstMonth - 3)..(FirstMonth - 1)) :
       LET order == InOrder(old \cup {FirstMonth}) IN
       /\ heap = [i \in DOMAIN order |-> NewMonthlyStats]
       /\ stats = [m \in old \cup {FirstMonth} |-> 1 + Before(old \cup {FirstMonth}, m)]
  /\ lastWrite = ZeroTime
  /\ mutex = "free"
  /\ writeBuffer = 0
  /\ done = FALSE
  /\ diskOk = TRUE
  /\ files = [tmp |-> Absent, canon |-> Json(Marshal(statsCopy)),
              legacy |-> Absent, bak |-> Absent]
  /\ call = [p \in Procs |->
               CASE p = "ctor" -> [IdleProc EXCEPT !.pc = "ready"]
                 [] p = "bg" -> [IdleProc EXCEPT !.pc = "select"]
                 [] OTHER -> IdleProc]
  /\ tally = NoTally
  /\ seen = NoSeen
  /\ final = NoFinal
  /\ booted = NoBoot

\* the steps of the goroutine that runs Cleanup
CleanupStep ==
  \/ \E r \in RetainChoices, day \in DayChoices : Cleanup(r, day)
  \/ SaveCopy("cl")
  \/ SaveOpen("cl")
  \/ SaveWrite("cl")
  \/ SaveRename("cl")
  \/ RequestWriteFallback("cl")

Keepers == {"cl", "g1"}

\* the nightly Cleanup next to one request handler
NextRetain ==
  \/ \E r \in RetainChoices, day \in DayChoices : Cleanup(r, day)
  \/ GetAllMonths
  \/ DiskToggle
  \/ \E p \in Keepers : SaveCopy(p)
  \/ \E p \in Keepers : SaveOpen(p)
  \/ \E p \in Keepers : SaveWrite(p)
  \/ \E p \in Keepers : SaveRename(p)
  \/ \E p \in Keepers : RequestWriteFallback(p)
  \/ \E a \in ArgChoices : IncLookup("g1", a)
  \/ IncUpdate("g1")
  \/ IncCheck("g1")
  \/ IncStamp("g1")
  \/ IncReturn("g1")

SpecRetain == InitRetain /\ [][NextRetain]_vars

\* ------------------------------------------------- resizing the caches
SizeChoices == {0, 1, 2}              \* arguments of SetMaxCacheSize and SetMaxLinkCacheSize

\* SetMaxCacheSize(size), lines 225-230: Lock() on cacheMutex with the unlock
\* deferred, the new limit, then cleanup(), whose first statement is Lock() on
\* the same mutex (line 152); past it the call would sweep both caches,
\* release the mutex and return
SetMaxCacheSize(size) ==
  /\ \/ /\ setter.pc = "idle"
        /\ CacheUnlocked
        /\ cacheMutex' = "setter"
        /\ maxCacheSize' = size
        /\ setter' = [pc |-> "cleanup", fn |-> "SetMaxCacheSize", now |-> now]
        /\ UNCHANGED <<cache, linkCache, lastCleanup, obs>>
     \/ /\ setter.pc = "cleanup"
        /\ setter.fn = "SetMaxCacheSize"
        /\ CacheUnlocked
        /\ LinkCacheUnlocked
        /\ LET c1 == RemoveExpired(cache, setter.now, cacheTTL)
               l1 == RemoveExpired(linkCache, setter.now, DefaultLinkCacheTTL)
           IN /\ \E D \in TrimChoices(c1, maxCacheSize) :
                   /\ cache' = Without(c1, D)
                   /\ obs' = SweepObs("sweepAnalysis", c1, maxCacheSize, D)
              /\ \E D \in TrimChoices(l1, maxLinkCacheSize) : linkCache' = Without(l1, D)
        /\ lastCleanup' = setter.now
        /\ setter' = IdleSetter
        /\ UNCHANGED <<cacheMutex, maxCacheSize>>
  /\ UNCHANGED <<storeVars, page, fan, mode, now, cacheTTL, maxLinkCacheSize, linkCacheMutex,
                 analyzerShutdown, statistics, sweep, reqs,
                 chk, stored, negStored>>

\* SetMaxLinkCacheSize(size), lines 233-238: Lock() on linkCacheMutex with the
\* unlock deferred, the new limit, then cleanup(): the analysis cache under
\* cacheMutex (lines 152-184), then Lock() on linkCacheMutex (line 187); past
\* it the call would sweep the link cache, release the mutex and return
SetMaxLinkCacheSize(size) ==
  /\ \/ /\ setter.pc = "idle"
        /\ LinkCacheUnlocked
        /\ linkCacheMutex' = "setter"
        /\ maxLinkCacheSize' = size
        /\ setter' = [pc |-> "cleanup", fn |-> "SetMaxLinkCacheSize", now |-> 0]
        /\ UNCHANGED <<cache, linkCache, lastCleanup, obs>>
     \/ /\ setter.pc = "cleanup"
        /\ setter.fn = "SetMaxLinkCacheSize"
        /\ CacheUnlocked
        /\ LET c1 == RemoveExpired(cache, now, cacheTTL)
           IN \E D \in TrimChoices(c1, maxCacheSize) :
                /\ cache' = Without(c1, D)
                /\ obs' = SweepObs("sweepAnalysis", c1, maxCacheSize, D)
        /\ setter' = [setter EXCEPT !.pc = "link", !.now = now]
        /\ UNCHANGED <<linkCache, lastCleanup, linkCacheMutex, maxLinkCacheSize>>
     \/ /\ setter.pc = "link"
        /\ LinkCacheUnlocked
        /\ LET l1 == RemoveExpired(linkCache, setter.now, DefaultLinkCacheTTL)
           IN \E D \in TrimChoices(l1, maxLinkCacheSize) :
                /\ linkCache' = Without(l1, D)
                /\ obs' = SweepObs("sweepLink", l1, maxLinkCacheSize, D)
        /\ lastCleanup' = setter.now
        /\ setter' = IdleSetter
        /\ UNCHANGED <<cache, linkCacheMutex, maxLinkCacheSize>>
  /\ UNCHANGED <<storeVars, page, fan, mode, now, cacheTTL, maxCacheSize, cacheMutex,
                 analyzerShutdown, statistics, sweep, reqs, chk,
                 stored, negStored>>

\* the steps of the goroutine that called a SetMax function
SetterStep == \E size \in SizeChoices : SetMaxCacheSize(size) \/ SetMaxLinkCacheSize(size)

\* caches with any contents, the sweeper, and a caller of the SetMax functions
NextResize ==
  \/ Tick
  \/ SweepStart
  \/ SweepAnalysis
  \/ SweepLink
  \/ \E size \in SizeChoices : SetMaxCacheSize(size)
  \/ \E size \in SizeChoices : SetMaxLinkCacheSize(size)

SpecResize == InitSweep /\ [][NextResize]_vars

\* ------------------------- the statistics store: failed writes and retries
Retriers == {"g1", "bg"}

\* the steps of the background writer while the store is open
BgStep ==
  \/ \E c \in {"request", "ticker"} : BgWake(c)
  \/ SaveCopy("bg")
  \/ SaveOpen("bg")
  \/ SaveWrite("bg")
  \/ SaveRename("bg")
  \/ BgSaved

\* one request handler and the background writer on a disk that comes and goes
NextWriter ==
  \/ \E c \in {"request", "ticker"} : BgWake(c)
  \/ BgSaved
  \/ DiskToggle
  \/ \E p \in Retriers : SaveCopy(p)
  \/ \E p \in Retriers : SaveOpen(p)
  \/ \E p \in Retriers : SaveWrite(p)
  \/ \E p \in Retriers : SaveRename(p)
  \/ RequestWriteFallback("g1")
  \/ \E a \in ArgChoices : IncLookup("g1", a)
  \/ IncCreate("g1")
  \/ IncUpdate("g1")
  \/ IncCheck("g1")
  \/ IncStamp("g1")
  \/ IncReturn("g1")

\* the same while time passes (a second write is due only after WriteInterval)
NextRetry == Tick \/ NextWriter

SpecRetry == InitStore /\ [][NextRetry]_vars

\* the background writer is a goroutine of its own with a ticker that keeps
\* firing: it is never held back forever
SpecWriter == InitStore /\ [][NextWriter]_vars /\ WF_vars(BgStep)

\* ------------------------------------------------- TrackAnalysis and its readers
\* what TrackAnalysis is called with: the page, and whether the analysis failed
TrackChoices == {<<0, 0, 0, 0, 1, 0>>, <<0, 0, 0, 0, 2, 1>>}
UrlOf(a) == IF a[5] = 1 THEN "u1" ELSE "u2"

\* TrackAnalysis, lines 256-261: the month, then the bucket under RLock()
TrackLookup(g, a) ==
  /\ call["ctor"].pc = "ready"
  /\ call[g].pc = "idle"
  /\ call[g].n < MaxCalls
  /\ Unlocked
  /\ LET exists == month \in DOMAIN stats IN
     /\ call' = [call EXCEPT ![g].pc = IF exists THEN "trackUpdate" ELSE "trackCreate",
                             ![g].ptr = IF exists THEN stats[month] ELSE 0,
                             ![g].month = month, ![g].args = a, ![g].n = @ + 1]
     /\ tally' = [tally EXCEPT !.lazy = @ \/ ~exists, !.overlap = @ \/ InFlight # {}]
  /\ UNCHANGED <<cacheVars, month, stats, heap, lastWrite, mutex, writeBuffer, done,
                 diskOk, files, seen, final, booted>>

\* lines 263-268: no bucket was found; make one and put it in the map
TrackCreate(g) ==
  /\ call[g].pc = "trackCreate"
  /\ Unlocked
  /\ heap' = Append(heap, NewMonthlyStats)
  /\ stats' = (call[g].month :> Len(heap) + 1) @@ stats
  /\ call' = [call EXCEPT ![g].pc = "trackUpdate", ![g].ptr = Len(heap) + 1]
  /\ UNCHANGED <<cacheVars, month, lastWrite, mutex, writeBuffer, done, diskOk, files,
                 tally, seen, final, booted>>

\* lines 272-281: counters, the URL count and the timestamp, all under one Lock()
Tracked(b, a) ==
  [b EXCEPT !.AnalysisRequests = @ + 1, !.TotalRequests = @ + 1,
            !.TotalLoadTime = @ + 1, !.ErrorCount = @ + a[6],
            !.PopularUrls = (UrlOf(a) :> Field(@, UrlOf(a), 0) + 1) @@ @,
            !.LastUpdated = now]

\* lines 271-282: the update, through the pointer read earlier; the rest of
\* the function (lines 287-297) is that of IncrementStats
TrackUpdate(g) ==
  /\ call[g].pc = "trackUpdate"
  /\ Unlocked
  /\ heap' = [heap EXCEPT ![call[g].ptr] = Tracked(@, call[g].args)]
  /\ call' = [call EXCEPT ![g].pc = "check"]
  /\ UNCHANGED <<cacheVars, month, stats, lastWrite, mutex, writeBuffer, done, diskOk,
                 files, tally, seen, final, booted>>

\* a request handler that calls TrackAnalysis and one that reads GetCurrentStats
NextTrack ==
  \/ \E a \in TrackChoices : TrackLookup("g1", a)
  \/ TrackCreate("g1")
  \/ TrackUpdate("g1")
  \/ IncCheck("g1")
  \/ IncStamp("g1")
  \/ IncReturn("g1")
  \/ SaveCopy("g1")
  \/ SaveOpen("g1")
  \/ SaveWrite("g1")
  \/ SaveRename("g1")
  \/ GetLookup
  \/ GetCounters
  \/ GetVisitors
  \/ GetUrls

SpecTrack == InitStore /\ [][NextTrack]_vars

\* ------------------------------------------------- collecting the links of a page
MaxHrefs == 3                         \* a[href] elements on a page

\* strings are sequences of pieces; a piece stands for the characters it spells
HasPrefix(s, prefix) ==
  /\ Len(prefix) <= Len(s)
  /\ SubSeq(s, 1, Len(prefix)) = prefix

RECURSIVE TrimLeft(_)
TrimLeft(s) == IF s # << >> /\ Head(s) = " " THEN TrimLeft(Tail(s)) ELSE s

RECURSIVE TrimRight(_)
TrimRight(s) ==
  IF s # << >> /\ s[Len(s)] = " " THEN TrimRight(SubSeq(s, 1, Len(s) - 1)) ELSE s

\* strings.TrimSpace
TrimSpace(s) == TrimRight(TrimLeft(s))

baseURL == <<"http", "s", ":", "/", "/", "b">>          \* https://b

\* the href values a page is made of
Hrefs ==
  { << >>,                                   \* href=""
    <<"#">>,                                 \* href="#"
    <<" ">>,                                 \* blanks only
    <<"#", "top">>,                          \* a fragment of the page
    <<"/", "a">>,                            \* from the root of the site
    <<" ", "/", "a", " ">>,                  \* the same with blanks around it
    baseURL \o <<"/", "a">>,                 \* the same, absolute
    <<"/", "/", "c", "/", "a">>,             \* protocol-relative, another host
    <<"http", ":", "/", "/", "c">>,          \* another site
    <<"a", ".", "html">>,                    \* relative to the page
    <<"mailto", ":", "x">> }                 \* no web address

\* lines 646-651: blanks trimmed, "//host" gets a scheme, "/path" gets the origin
Normalize(href) ==
  LET t == TrimSpace(href) IN
  IF HasPrefix(t, <<"/", "/">>) THEN <<"http", "s", ":">> \o t
  ELSE IF HasPrefix(t, <<"/">>) THEN baseURL \o t
  ELSE t

\* lines 660-666: which counter a link goes to
IsInternal(href) == HasPrefix(href, baseURL) \/ HasPrefix(href, <<"/">>)
IsExternal(href) == ~IsInternal(href) /\ HasPrefix(href, <<"http">>)

\* lines 638-665, the callback of doc.Find("a[href]").Each on the next element
Collected(href) ==
  LET n == Normalize(href) IN
  IF href = << >> \/ href = <<"#">> \/ n \in page.checkedLinks
    THEN page
    ELSE [page EXCEPT !.checkedLinks = @ \cup {n},
                      !.InternalLinks = IF IsInternal(n) THEN @ + 1 ELSE @,
                      !.ExternalLinks = IF IsExternal(n) THEN @ + 1 ELSE @,
                      !.linkURLs = IF IsInternal(n) \/ IsExternal(n)
                                     THEN Append(@, n) ELSE @]

CollectLink ==
  /\ mode = "collect"
  /\ page.next <= Len(page.hrefs)
  /\ page' = [Collected(page.hrefs[page.next]) EXCEPT !.next = page.next + 1]
  /\ UNCHANGED <<storeVars, locks, fan, mode, now, cache, cacheTTL, maxCacheSize, linkCache,
                 maxLinkCacheSize, lastCleanup, sweep, reqs, chk, obs, stored, negStored>>

Pages == UNION {[1..n -> Hrefs] : n \in 0..MaxHrefs}

InitCollect ==
  /\ mode = "collect"
  /\ StoreDown
  /\ InitLocks
  /\ fan = IdleFan
  /\ \E hs \in Pages : page = [NoPage EXCEPT !.hrefs = hs]
  /\ now = 0
  /\ cache = << >>
  /\ cacheTTL = DefaultCacheTTL
  /\ maxCacheSize = DefaultMaxCacheSize
  /\ linkCache = << >>
  /\ maxLinkCacheSize = DefaultMaxLinkCacheSize
  /\ lastCleanup = 0
  /\ sweep = [pc |-> "idle", now |-> 0]
  /\ reqs = [r \in Reqs |-> IdleCall]
  /\ chk = [c \in Checkers |-> IdleCall]
  /\ obs = NoObs
  /\ stored = [u \in Urls |-> None]
  /\ negStored = [l \in Links |-> None]

NextCollect == CollectLink

SpecCollect == InitCollect /\ [][NextCollect]_vars

\* ------------------------------------------------- the link fan-out
SemaphoreSize == 1                    \* analyzer.go:668, 10 probes at a time
FanProbes == <<"g1", "g2">>           \* one goroutine per unique link, in page order
LinkOf(g) == IF g = "g1" THEN "l1" ELSE "l2"

\* analyzeLinksWithContext, lines 638-673: the unique links are collected, the
\* wait group, the semaphore and the link context are made (one page after
\* another: Analyze calls of one client)
FanStart ==
  /\ call["ctor"].pc = "ready"
  /\ fan.pc \in {"idle", "returned"}
  /\ \A g \in Mutators : fan.probe[g].pc \in {"none", "done"}
  /\ fan.round < MaxCalls
  /\ fan' = [IdleFan EXCEPT !.pc = "spawn", !.round = fan.round + 1]
  /\ UNCHANGED <<storeVars, page, locks, mode, now, cache, cacheTTL, maxCacheSize, linkCache,
                 maxLinkCacheSize, lastCleanup, sweep, reqs, chk, obs, stored, negStored>>

\* what the caller gets: the tally as it stands when the call returns
Partial == [BrokenLinks |-> fan.broken]

\* lines 680 and 737-747: the caller reads links.BrokenLinks without mu; the
\* goroutines that have their write of lines 693-695 still before them
Writers == {g \in Mutators : fan.probe[g].pc \in {"acquire", "lookup", "stats"}}

\* lines 675-698: with the parent context cancelled the call returns what it
\* has (lines 677-680); otherwise wg.Add(1) and a goroutine for the next
\* link; after the last one the waiter goroutine (lines 701-705) and the
\* select of lines 708-713
FanSpawn ==
  /\ fan.pc = "spawn"
  /\ IF fan.next <= Len(FanProbes)
       THEN IF fan.cancelled
              THEN fan' = [fan EXCEPT !.pc = "returned", !.ret = Partial, !.racing = Writers]
              ELSE fan' = [fan EXCEPT !.wg = @ + 1, !.next = @ + 1,
                                      !.probe[FanProbes[fan.next]].pc = "acquire"]
       ELSE fan' = [fan EXCEPT !.pc = "wait"]
  /\ UNCHANGED <<storeVars, page, locks, mode, now, cache, cacheTTL, maxCacheSize, linkCache,
                 maxLinkCacheSize, lastCleanup, sweep, reqs, chk, obs, stored, negStored>>

\* the goroutine of lines 685-697 without the send of line 688: a probe
\* starts whatever the number of probes under way
ProbeAcquireUnbounded(g) ==
  /\ fan.probe[g].pc = "acquire"
  /\ fan' = [fan EXCEPT !.semaphore = @ + 1, !.probe[g].pc = "lookup",
                        !.probe[g].late = fan.cancelled]
  /\ UNCHANGED <<storeVars, page, locks, mode, now, cache, cacheTTL, maxCacheSize, linkCache,
                 maxLinkCacheSize, lastCleanup, sweep, reqs, chk, obs, stored, negStored>>

\* line 688: semaphore <- struct{}{} gets through while the channel has room
ProbeAcquire(g) ==
  /\ fan.probe[g].pc = "acquire"
  /\ fan.semaphore < SemaphoreSize
  /\ fan' = [fan EXCEPT !.semaphore = @ + 1, !.probe[g].pc = "lookup",
                        !.probe[g].late = fan.cancelled]
  /\ UNCHANGED <<storeVars, page, locks, mode, now, cache, cacheTTL, maxCacheSize, linkCache,
                 maxLinkCacheSize, lastCleanup, sweep, reqs, chk, obs, stored, negStored>>

\* isLinkAccessibleWithContext, lines 752-762: the link cache under RLock()
ProbeLookup(g) ==
  /\ fan.probe[g].pc = "lookup"
  /\ LinkCacheUnlocked
  /\ LET k == generateCacheKey(LinkOf(g))
         hit == k \in DOMAIN linkCache /\ Fresh(linkCache[k].timestamp, DefaultLinkCacheTTL)
     IN fan' = [fan EXCEPT !.probe[g].pc = "stats", !.probe[g].hit = hit,
                           !.probe[g].verdict = IF hit THEN linkCache[k].value ELSE FALSE]
  /\ UNCHANGED <<storeVars, page, locks, mode, now, cache, cacheTTL, maxCacheSize, linkCache,
                 maxLinkCacheSize, lastCleanup, sweep, reqs, chk, obs, stored, negStored>>

\* lines 757 and 765: IncrementStats(0, 0, 1, 0) on a hit, (0, 0, 0, 1) on a miss
ProbeStats(g) ==
  /\ fan.probe[g].pc = "stats"
  /\ call[g].n = fan.round - 1
  /\ IncLookup(g, IF fan.probe[g].hit THEN <<0, 0, 1, 0>> ELSE <<0, 0, 0, 1>>)

\* lines 671-672: the link context is a child of the parent context and is
\* cancelled by the deferred cancel() when the call returns
LinkCtxDone == fan.cancelled \/ fan.pc = "returned"

\* lines 759 and 767-800: IncrementStats is back; a hit returns the cached
\* verdict, a miss sends the HEAD request, which ends (client timeout, link
\* context; it fails once the link context is cancelled, by the parent or by
\* the deferred cancel of line 672), and stores the verdict under Lock();
\* lines 691-695: a broken link is counted under mu
ProbeFinish(g, accessible) ==
  /\ fan.probe[g].pc = "stats"
  /\ call[g].n = fan.round
  /\ call[g].pc = "idle"
  /\ IF fan.probe[g].hit
       THEN /\ accessible = fan.probe[g].verdict
            /\ UNCHANGED linkCache
       ELSE /\ LinkCacheUnlocked
            /\ "linkCache" \notin analyzerShutdown.nilMaps
            /\ LinkCtxDone => ~accessible
            /\ linkCache' = cacheAndReturnLinkStatus(linkCache, generateCacheKey(LinkOf(g)),
                                                     accessible)
  /\ fan' = [fan EXCEPT !.probe[g].pc = "release", !.probe[g].verdict = accessible,
                        !.probe[g].aborted = ~fan.probe[g].hit /\ LinkCtxDone,
                        !.broken = IF accessible THEN @ ELSE @ + 1]
  /\ UNCHANGED <<storeVars, page, locks, mode, now, cache, cacheTTL, maxCacheSize,
                 maxLinkCacheSize, lastCleanup, sweep, reqs, chk, obs, stored, negStored>>

\* lines 686 and 689, deferred: the semaphore slot is given back, wg.Done()
ProbeRelease(g) ==
  /\ fan.probe[g].pc = "release"
  /\ fan' = [fan EXCEPT !.semaphore = @ - 1, !.wg = @ - 1, !.probe[g].pc = "done"]
  /\ UNCHANGED <<storeVars, page, locks, mode, now, cache, cacheTTL, maxCacheSize, linkCache,
                 maxLinkCacheSize, lastCleanup, sweep, reqs, chk, obs, stored, negStored>>

\* lines 701-705: the waiter goroutine, wg.Wait() then close(done)
FanWait ==
  /\ fan.pc = "wait"
  /\ ~fan.done
  /\ fan.wg = 0
  /\ fan' = [fan EXCEPT !.done = TRUE]
  /\ UNCHANGED <<storeVars, page, locks, mode, now, cache, cacheTTL, maxCacheSize, linkCache,
                 maxLinkCacheSize, lastCleanup, sweep, reqs, chk, obs, stored, negStored>>

\* the parent context of the Analyze call is cancelled (client gone, deadline)
FanCancel ==
  /\ fan.pc \in {"spawn", "wait"}
  /\ ~fan.cancelled
  /\ fan' = [fan EXCEPT !.cancelled = TRUE]
  /\ UNCHANGED <<storeVars, page, locks, mode, now, cache, cacheTTL, maxCacheSize, linkCache,
                 maxLinkCacheSize, lastCleanup, sweep, reqs, chk, obs, stored, negStored>>

\* lines 708-748: done is closed or the parent context is cancelled; the
\* score from the tally as it stands, and the call returns
FanReturn ==
  /\ fan.pc = "wait"
  /\ fan.done \/ fan.cancelled
  /\ fan' = [fan EXCEPT !.pc = "returned", !.ret = Partial, !.racing = Writers]
  /\ UNCHANGED <<storeVars, page, locks, mode, now, cache, cacheTTL, maxCacheSize, linkCache,
                 maxLinkCacheSize, lastCleanup, sweep, reqs, chk, obs, stored, negStored>>

\* the steps of the goroutines of a fan-out: the caller, the waiter and the
\* probes, with the IncrementStats call each probe makes
FanStep ==
  \/ FanSpawn
  \/ FanWait
  \/ FanReturn
  \/ \E g \in Mutators :
       \/ ProbeAcquire(g)
       \/ ProbeLookup(g)
       \/ ProbeStats(g)
       \/ \E accessible \in BOOLEAN : ProbeFinish(g, accessible)
       \/ ProbeRelease(g)
       \/ IncCreate(g) \/ IncUpdate(g) \/ IncCheck(g) \/ IncStamp(g) \/ IncReturn(g)
       \/ SaveCopy(g) \/ SaveOpen(g) \/ SaveWrite(g) \/ SaveRename(g)
       \/ RequestWriteFallback(g)

\* pages analysed one after another on a running store whose disk comes and
\* goes, and the nightly Cleanup(1) of the server (part_004, lines 122-150)
NextFan ==
  \/ FanStart
  \/ FanSpawn
  \/ FanWait
  \/ FanReturn
  \/ \E g \in Mutators : ProbeAcquire(g)
  \/ \E g \in Mutators : ProbeLookup(g)
  \/ \E g \in Mutators : ProbeStats(g)
  \/ \E g \in Mutators, accessible \in BOOLEAN : ProbeFinish(g, accessible)
  \/ \E g \in Mutators : ProbeRelease(g)
  \/ \E g \in Mutators : IncCreate(g)
  \/ \E g \in Mutators : IncUpdate(g)
  \/ \E g \in Mutators : IncCheck(g)
  \/ \E g \in Mutators : IncStamp(g)
  \/ \E g \in Mutators : IncReturn(g)
  \/ \E p \in Mutators \cup {"cl"} : SaveCopy(p)
  \/ \E p \in Mutators \cup {"cl"} : SaveOpen(p)
  \/ \E p \in Mutators \cup {"cl"} : SaveWrite(p)
  \/ \E p \in Mutators \cup {"cl"} : SaveRename(p)
  \/ \E g \in Mutators : RequestWriteFallback(g)
  \/ \E day \in DayChoices : Cleanup(1, day)
  \/ DiskToggle

SpecFan == InitStore /\ [][NextFan]_vars

\* the same pages with a parent context that may be cancelled at any moment;
\* no Cleanup in these runs
NextCancel ==
  \/ FanCancel
  \/ FanStart
  \/ FanSpawn
  \/ FanWait
  \/ FanReturn
  \/ \E g \in Mutators : ProbeAcquire(g)
  \/ \E g \in Mutators : ProbeLookup(g)
  \/ \E g \in Mutators : ProbeStats(g)
  \/ \E g \in Mutators, accessible \in BOOLEAN : ProbeFinish(g, accessible)
  \/ \E g \in Mutators : ProbeRelease(g)
  \/ \E g \in Mutators : IncCreate(g)
  \/ \E g \in Mutators : IncUpdate(g)
  \/ \E g \in Mutators : IncCheck(g)
  \/ \E g \in Mutators : IncStamp(g)
  \/ \E g \in Mutators : IncReturn(g)
  \/ \E g \in Mutators : SaveCopy(g)
  \/ \E g \in Mutators : SaveOpen(g)
  \/ \E g \in Mutators : SaveWrite(g)
  \/ \E g \in Mutators : SaveRename(g)
  \/ \E g \in Mutators : RequestWriteFallback(g)
  \/ DiskToggle

SpecCancel == InitStore /\ [][NextCancel]_vars

\* ------------------------------------------------- Analyzer.Shutdown
\* Shutdown(), lines 932-955: a.stats.Shutdown() first, whose error ends the
\* call with the caches untouched; then a.cache = nil under cacheMutex and
\* a.linkCache = nil under linkCacheMutex. A nil map reads as an empty one.
AnalyzerShutdown ==
  /\ \/ /\ analyzerShutdown.pc = "idle"
        /\ \E ok \in BOOLEAN :
             analyzerShutdown' = [analyzerShutdown EXCEPT !.pc = IF ok THEN "cache" ELSE "returned"]
        /\ UNCHANGED <<cache, linkCache>>
     \/ /\ analyzerShutdown.pc = "cache"
        /\ CacheUnlocked
        /\ cache' = << >>
        /\ analyzerShutdown' = [pc |-> "link", nilMaps |-> analyzerShutdown.nilMaps \cup {"cache"}]
        /\ UNCHANGED linkCache
     \/ /\ analyzerShutdown.pc = "link"
        /\ LinkCacheUnlocked
        /\ linkCache' = << >>
        /\ analyzerShutdown' = [pc |-> "returned",
                                nilMaps |-> analyzerShutdown.nilMaps \cup {"linkCache"}]
        /\ UNCHANGED cache
  /\ UNCHANGED <<storeVars, page, cacheMutex, linkCacheMutex, setter, statistics, fan, mode, now,
                 cacheTTL, maxCacheSize, maxLinkCacheSize, lastCleanup, sweep, reqs, chk, obs,
                 stored, negStored>>

\* Analyze(url), lines 332-337, with a.cache nil: the assignment to an entry
\* of a nil map panics; the deferred cancel runs, the mutex stays locked
AnalyzePutNil(r) ==
  /\ CacheUnlocked
  /\ reqs[r].pc = "fetch"
  /\ "cache" \in analyzerShutdown.nilMaps
  /\ reqs' = [reqs EXCEPT ![r].pc = "panicked"]
  /\ cacheMutex' = r
  /\ UNCHANGED <<storeVars, page, linkCacheMutex, setter, analyzerShutdown, statistics, fan, mode, now,
                 cache, cacheTTL, maxCacheSize, linkCache, maxLinkCacheSize, lastCleanup, sweep,
                 chk, obs, stored, negStored>>

\* cacheAndReturnLinkStatus, lines 794-800, with a.linkCache nil: the
\* assignment panics; the deferred Unlock() runs
LinkStoreNil(c) ==
  /\ LinkCacheUnlocked
  /\ chk[c].pc = "probe"
  /\ "linkCache" \in analyzerShutdown.nilMaps
  /\ chk' = [chk EXCEPT ![c].pc = "panicked"]
  /\ UNCHANGED <<storeVars, page, locks, fan, mode, now, cache, cacheTTL, maxCacheSize,
                 linkCache, maxLinkCacheSize, lastCleanup, sweep, reqs, obs, stored, negStored>>

\* Analyze calls and link checks while Shutdown runs and after it
NextShutdown ==
  \/ Tick
  \/ SweepStart
  \/ SweepAnalysis
  \/ SweepLink
  \/ mode = "cache" /\ ClearCache
  \/ \E u \in Urls : mode = "cache" /\ AnalyzeLookup("r1", u)
  \/ mode = "cache" /\ AnalyzeFetchFail("r1")
  \/ mode = "cache" /\ AnalyzePut("r1")
  \/ mode = "cache" /\ AnalyzePutNil("r1")
  \/ \E l \in Links : mode = "link" /\ LinkLookup("c1", l)
  \/ \E b \in BOOLEAN : mode = "link" /\ LinkProbeDone("c1", b)
  \/ mode = "link" /\ LinkStoreNil("c1")
  \/ AnalyzerShutdown

SpecShutdown == InitCaches /\ [][NextShutdown]_vars

\* ------------------------------------------------- logging.Statistics
SaveEvery == 10                     \* part_003, line 120
LegacyUrls == {"u1", "localhost"}   \* request URLs
LegacyRest == <<mode, now, cache, cacheTTL, maxCacheSize, linkCache, maxLinkCacheSize,
                lastCleanup, sweep, reqs, chk, obs, stored, negStored, cacheMutex,
                linkCacheMutex, setter, analyzerShutdown, fan, page>>

\* cleanURL, lines 69-93: "" for the URLs of the service itself
cleanURL(u) == IF u = "localhost" THEN "" ELSE u

\* Initialize and Load, lines 41-58 and 202-226: the fields that
\* statistics.json holds are read back; RequestCount is not saved
StatisticsInitialize ==
  /\ ~statistics.ready
  /\ \E n \in {0, SaveEvery - 2, SaveEvery - 1} :
       statistics' = [NoStatistics EXCEPT !.ready = TRUE, !.AnalysisRequests = n]
  /\ UNCHANGED <<storeVars, LegacyRest>>

\* TrackVisitor, lines 62-67: Lock(), the map entry, Unlock()
StatisticsTrackVisitor(t, ip) ==
  /\ statistics.ready
  /\ statistics.pc[t] = "idle"
  /\ statistics.mutex = "free"
  /\ statistics' = [statistics EXCEPT !.UniqueVisitors = @ \cup {ip}]
  /\ UNCHANGED <<storeVars, LegacyRest>>

\* TrackAnalysis, lines 97-118: Lock() with the unlock deferred, the
\* counters, the count of the cleaned URL; on every SaveEvery-th request it
\* goes on to Save() (lines 120-124), else it returns
StatisticsTrackAnalysis(t, u, hasError) ==
  /\ statistics.ready
  /\ statistics.pc[t] = "idle"
  /\ statistics.mutex = "free"
  /\ statistics' =
       [statistics EXCEPT
          !.mutex = t,
          !.AnalysisRequests = @ + 1,
          !.PopularURLs = IF cleanURL(u) # ""
                          THEN (cleanURL(u) :> Field(@, cleanURL(u), 0) + 1) @@ @
                          ELSE @,
          !.ErrorCount = IF hasError THEN @ + 1 ELSE @,
          !.RequestCount = @ + 1,
          !.pc[t] = IF (statistics.AnalysisRequests + 1) % SaveEvery = 0
                    THEN "trackSave" ELSE "return"]
  /\ UNCHANGED <<storeVars, LegacyRest>>

\* go stats.Save() of the request middleware (part_001, line 40)
StatisticsSaveCall(t) ==
  /\ statistics.ready
  /\ statistics.pc[t] = "idle"
  /\ statistics' = [statistics EXCEPT !.pc[t] = "save"]
  /\ UNCHANGED <<storeVars, LegacyRest>>

\* Save(), lines 177-199: Lock() with the unlock deferred, the file is
\* created and the fields are encoded into it; then back to the caller
StatisticsSave(t) ==
  /\ statistics.pc[t] \in {"save", "trackSave"}
  /\ statistics.mutex = "free"
  /\ statistics' = [statistics EXCEPT
                      !.file = [analysisRequests |-> statistics.AnalysisRequests,
                                errorCount |-> statistics.ErrorCount,
                                popularUrls |-> statistics.PopularURLs],
                      !.pc[t] = IF @ = "trackSave" THEN "return" ELSE "idle"]
  /\ UNCHANGED <<storeVars, LegacyRest>>

\* TrackAnalysis returns: the deferred Unlock() of line 98
StatisticsReturn(t) ==
  /\ statistics.pc[t] = "return"
  /\ statistics' = [statistics EXCEPT !.mutex = "free", !.pc[t] = "idle"]
  /\ UNCHANGED <<storeVars, LegacyRest>>

\* the steps of a goroutine that is inside TrackAnalysis
StatisticsStep(t) == StatisticsSave(t) \/ StatisticsReturn(t)

\* request handlers on the legacy statistics
NextStatistics ==
  \/ StatisticsInitialize
  \/ \E t \in Trackers : StatisticsTrackVisitor(t, "ip1")
  \/ \E t \in Trackers, u \in LegacyUrls, hasError \in BOOLEAN :
       StatisticsTrackAnalysis(t, u, hasError)
  \/ \E t \in Trackers : StatisticsSaveCall(t)
  \/ \E t \in Trackers : StatisticsSave(t)
  \/ \E t \in Trackers : StatisticsReturn(t)

InitStatistics == mode = "legacy" /\ InitCache /\ StoreDown

SpecStatistics == InitStatistics /\ [][NextStatistics]_vars

\* ------------------------------------------- GetMonthlyStats and its caller
\* GetMonthlyStats(yearMonth), lines 599-607: under RLock(), return *stats,
\* true: the struct is copied, so the counters are copied, and its two map
\* fields are the maps of the bucket (ref is the bucket whose maps they are)
GetMonthlyStats(m) ==
  /\ call["ctor"].pc = "ready"
  /\ Unlocked
  /\ seen' = [seen EXCEPT !.monthly =
                IF m \in DOMAIN stats
                THEN [valid |-> TRUE, found |-> TRUE, value |-> heap[stats[m]],
                      ref |-> stats[m], written |-> FALSE]
                ELSE [NoMonthly EXCEPT !.valid = TRUE]]
  /\ UNCHANGED <<cacheVars, month, stats, heap, lastWrite, mutex, writeBuffer, done, diskOk,
                 files, call, tally, final, booted>>

\* the maps of the value GetMonthlyStats returned, as its holder reads them now
ReturnedMaps ==
  [UniqueVisitors |-> heap[seen.monthly.ref].UniqueVisitors,
   PopularUrls |-> heap[seen.monthly.ref].PopularUrls]

\* the holder of the returned value writes to one of its maps:
\* v.PopularUrls[url] = 0
ReturnedWrite(u) ==
  /\ seen.monthly.valid
  /\ seen.monthly.found
  /\ ~seen.monthly.written
  /\ heap' = [heap EXCEPT ![seen.monthly.ref].PopularUrls = (u :> 0) @@ @]
  /\ seen' = [seen EXCEPT !.monthly.written = TRUE]
  /\ UNCHANGED <<cacheVars, month, stats, lastWrite, mutex, writeBuffer, done, diskOk,
                 files, call, tally, final, booted>>

\* a handler that calls TrackAnalysis and one that calls GetMonthlyStats and
\* uses what it got
NextShare ==
  \/ \E a \in TrackChoices : TrackLookup("g1", a)
  \/ TrackCreate("g1")
  \/ TrackUpdate("g1")
  \/ IncCheck("g1")
  \/ IncStamp("g1")
  \/ IncReturn("g1")
  \/ SaveCopy("g1")
  \/ SaveOpen("g1")
  \/ SaveWrite("g1")
  \/ SaveRename("g1")
  \/ \E m \in {FirstMonth - 1, FirstMonth} : GetMonthlyStats(m)
  \/ \E u \in Urls : ReturnedWrite(u)

SpecShare == InitStore /\ [][NextShare]_vars

\* ------------------------------------------------------ claims on the caches
Lookups == {"analyze", "iscached", "link"}

\* C1: no lookup of either cache serves an entry whose age is >= the TTL in
\* force, even when the entry is still in the map: Analyze does not hit (it
\* records a miss and fetches), IsCached reports false, and a link check does
\* not reuse the verdict (it probes again).
C1_LazyExpiry ==
  (obs.kind \in Lookups /\ obs.aged) =>
    /\ ~obs.hit
    /\ obs.ret = None
    /\ obs.kind = "analyze" => (obs.probed /\ obs.stat = <<0, 1, 0, 0>>)
    /\ obs.kind = "link" => (obs.probed /\ obs.stat = <<0, 0, 0, 1>>)

C1_Witness == obs.kind \in Lookups /\ obs.present /\ obs.aged /\ ~obs.hit

C6_SizeAfterSweep ==
  /\ obs.kind = "sweepAnalysis" =>
       (obs.size <= maxCacheSize /\ Cardinality(DOMAIN cache) = obs.size)
  /\ obs.kind = "sweepLink" =>
       (obs.size <= maxLinkCacheSize /\ Cardinality(DOMAIN linkCache) = obs.size)

C6_Witness ==
  /\ obs.kind = "sweepLink" /\ obs.n > obs.max + 1
  /\ Cardinality(DOMAIN cache) = maxCacheSize

\* C7: a capacity trim deletes exactly count - max entries, and they are the
\* oldest by insertion time among those that survived expiry: no entry kept is
\* older than an entry deleted. Entries carry no access time.
C7_OldestFirst ==
  (obs.kind \in {"sweepAnalysis", "sweepLink"} /\ obs.n > obs.max) =>
    /\ Cardinality(obs.deleted) = obs.n - obs.max
    /\ \A d \in obs.deleted, s \in obs.kept : d[2] <= s[2]

C7_Witness ==
  /\ obs.kind \in {"sweepAnalysis", "sweepLink"}
  /\ Cardinality(obs.deleted) = 2
  /\ \E d \in obs.deleted, s \in obs.kept : d[2] < s[2]
  /\ \E d, e \in obs.deleted : d[2] < e[2]

\* C8 as claimed: once a check of L has returned false, every further check
\* of L within the link-cache TTL returns false from the cache, with no probe
\* and a link-cache hit recorded; the verdict was stored before it was returned.
C8_Original ==
  /\ (obs.kind = "link" /\ obs.due) =>
       (obs.hit /\ obs.ret = FALSE /\ ~obs.probed /\ obs.stat = <<0, 0, 1, 0>>)
  /\ (obs.kind = "linkret" /\ obs.ret = FALSE) => obs.cached

\* C8 as amended: the same, as long as the negative entry is still the one in
\* the link cache (no capacity trim removed it, and no other check of L that
\* had missed earlier has overwritten it with its own verdict).
C8_NegativeCaching ==
  /\ (obs.kind = "link" /\ obs.due /\ obs.intact) =>
       (obs.hit /\ obs.ret = FALSE /\ ~obs.probed /\ obs.stat = <<0, 0, 1, 0>>)
  /\ (obs.kind = "linkret" /\ obs.ret = FALSE) => obs.cached

C8_Witness ==
  obs.kind = "link" /\ obs.due /\ obs.intact /\ obs.hit /\ obs.ret = FALSE

\* ------------------------------------------- claims on the statistics store
CurrentHits ==
  IF month \in DOMAIN stats THEN heap[stats[month]].AnalysisCacheHits ELSE 0

\* C2: when this month's bucket existed before the calls, concurrent
\* IncrementStats(1,0,0,0) calls lose nothing: once none is in flight the
\* bucket's analysis hits equal the number of calls made, a GetCurrentStats
\* snapshot taken then shows that number, and a snapshot taken in between shows
\* no less than the calls already returned and no more than the calls started.
C2_NoLostIncrement ==
  ~tally.lazy =>
    /\ InFlight = {} => CurrentHits = tally.started
    /\ seen.valid =>
         /\ seen.returned <= seen.copy.AnalysisCacheHits
         /\ seen.copy.AnalysisCacheHits <= seen.started
         /\ seen.quiet => seen.copy.AnalysisCacheHits = seen.started

\* calls of two goroutines overlapped, all are back, the snapshot shows them
C2_Witness ==
  /\ ~tally.lazy
  /\ tally.overlap
  /\ InFlight = {}
  /\ tally.returned = 2 * MaxCalls
  /\ seen.valid /\ seen.quiet
  /\ seen.copy.AnalysisCacheHits = 2 * MaxCalls

\* C3: stats.json is at every moment absent or a complete serialization,
\* never empty or cut short, whatever saves run and wherever they stop.
C3_CanonicalWhole == files.canon = Absent \/ files.canon.kind = "json"

\* every counter of the snapshot is in the document, no smaller
Includes(body, snap) ==
  \A m \in DOMAIN snap :
    /\ m \in DOMAIN body
    /\ body[m].analysis_hits >= snap[m].analysis_hits
    /\ body[m].analysis_misses >= snap[m].analysis_misses
    /\ body[m].link_hits >= snap[m].link_hits
    /\ body[m].link_misses >= snap[m].link_misses

\* C4: when Shutdown has returned nil, stats.json holds a serialization that
\* includes every mutation completed before Shutdown was called.
C4_ShutdownFlushes ==
  (call["sd"].pc = "returned" /\ final.ret = "ok") =>
    /\ files.canon.kind = "json"
    /\ Includes(files.canon.body, final.snap)

CounterKeys ==
  {"analysis_hits", "analysis_misses", "link_hits", "link_misses",
   "analysis_requests", "error_count", "total_load_time", "total_requests",
   "unique_visitors", "popular_urls"}
Counters(j) == [k \in CounterKeys |-> j[k]]
CurrentOf(doc) ==
  IF month \in DOMAIN doc THEN Counters(doc[month])
  ELSE Counters(MarshalMonth(NewMonthlyStats))

\* C9: a store constructed on a directory whose stats.json is a saved document
\* has, when NewStorage returns, the months of that document with the counters
\* of that document (so the current month's too), and the stats.json it leaves
\* has them as well: save then construct changes no counter, however often.
C9_RoundTrip ==
  (booted.valid /\ booted.file.kind = "json") =>
    /\ DOMAIN booted.mem = DOMAIN booted.file.body
    /\ \A m \in DOMAIN booted.file.body :
         Counters(booted.mem[m]) = Counters(booted.file.body[m])
    /\ CurrentOf(booted.mem) = CurrentOf(booted.file.body)
    /\ booted.disk.kind = "json"
    /\ DOMAIN booted.disk.body = DOMAIN booted.file.body
    /\ \A m \in DOMAIN booted.file.body :
         Counters(booted.disk.body[m]) = Counters(booted.file.body[m])

\* a later start has read back hits of this month that an earlier run saved
C9_Witness ==
  /\ booted.valid
  /\ booted.n >= 2
  /\ booted.file.kind = "json"
  /\ month \in DOMAIN booted.file.body
  /\ booted.file.body[month].analysis_hits >= 1
  /\ booted.mem[month].analysis_hits = booted.file.body[month].analysis_hits

FileHits(f) ==
  IF f.kind = "json" /\ month \in DOMAIN f.body THEN f.body[month].analysis_hits ELSE 0

\* C10: NewStorage on a directory with a readable statistics.json goes through
\* (its goroutine always has a next step until it returns), and when it has
\* returned the old file is renamed to .bak and this month's bucket holds the
\* old counter exactly once on top of what stats.json had.
C10_MigratesOnce ==
  /\ call["ctor"].pc \in Booting => ENABLED CtorStep
  /\ (booted.valid /\ booted.old.kind = "json") =>
       /\ files.legacy = Absent
       /\ files.bak = booted.old
       /\ month \in DOMAIN booted.mem
       /\ booted.mem[month].analysis_hits =
            FileHits(booted.file) + UnmarshalOld(booted.old.body).AnalysisCacheHits

\* C11: NewStorage comes back whatever statistics.json is (absent, unreadable,
\* not JSON, or valid): while it merges and writes the old statistics its
\* goroutine always has a next step, and when it gives up with an error the
\* reason is stats.json or the directory, never the old file.
C11_ConstructionReturns ==
  /\ call["ctor"].pc \in {"merge", "migrated"} => ENABLED CtorStep
  /\ call["ctor"].pc = "failed" => booted.file.kind \in {"empty", "garbage"} \/ ~diskOk
                                     \/ booted.file = Absent

\* C12: Cleanup called on a running store does its deletions and returns with
\* the lock released: while it is inside, its goroutine always has a next step.
C12_CleanupReturns == call["cl"].pc = "cleaned" => ENABLED CleanupStep

\* C13: once Cleanup(1) has done its deletions, GetAllMonths can be answered,
\* and the map it lists has no key but this month and the month before.
C13_TwoMonthsListed ==
  (call["cl"].pc = "cleaned" /\ call["cl"].args[1] = 1 /\ call["rd"].pc = "idle") =>
    /\ DOMAIN stats \subseteq {month, month - 1}
    /\ ENABLED GetAllMonths

\* C14: Cleanup(retainMonths) keeps exactly the buckets of this month and of the
\* retainMonths months before it, out of those that existed.
C14_RetainArgument ==
  call["cl"].pc = "cleaned" =>
    DOMAIN stats = {k \in DOMAIN call["cl"].data : k >= month - call["cl"].args[1]}

\* C15: once Shutdown has returned the store is closed for good: a second
\* Shutdown does not panic, and calls made afterwards change nothing, so neither
\* the bucket in memory nor stats.json ever shows more hits than the calls that
\* had been started when Shutdown returned.
C15_ClosedAbsorbing ==
  /\ call["sd"].pc # "panicked"
  /\ final.ret # "none" =>
       /\ CurrentHits <= final.started
       /\ FileHits(files.canon) <= final.started

\* C16: a step in which an Analyze call ends with an error returns no result
\* and leaves the analysis cache exactly as it was.
C16_FailedFetchStoresNothing ==
  [][(\E r \in Reqs : reqs[r].pc = "fetch" /\ reqs'[r].pc = "idle" /\ obs'.kind = "error")
       => (cache' = cache /\ obs'.ret = None)]_vars

\* an Analyze of a URL has failed and the URL is not cached
C16_Witness == obs.kind = "error" /\ obs.url = "u1" /\ ~obs.cached /\ obs.ret = None

\* requestWrite() gave up: its save failed and a request was queued, or the retry failed too
GaveUp(g) ==
  /\ call[g].pc = "write"
  /\ call[g].rw = "queued" \/ (call[g].rw = "retry" /\ call[g].sv = "err")

\* C17: when the write that IncrementStats triggered fails, the call is not
\* stuck (after the failed save requestWrite can go on, and once it has given
\* up IncrementStats returns), and the update it made is in the bucket that
\* GetCurrentStats reads.
C17_WriteFailureContained ==
  \A g \in Mutators :
    /\ (call[g].pc = "write" /\ call[g].sv = "err") =>
         ENABLED (RequestWriteFallback(g) \/ IncReturn(g))
    /\ GaveUp(g) =>
         /\ ENABLED IncReturn(g)
         /\ CurrentHits = tally.started
         /\ CurrentHits >= 1

\* both the direct save and the retry have failed; stats.json lacks the update
C17_Witness ==
  /\ GaveUp("g1")
  /\ call["g1"].rw = "retry"
  /\ CurrentHits = MaxCalls
  /\ FileHits(files.canon) < CurrentHits

\* stats.json holds exactly what the map holds
OnDisk == files.canon = Json(Marshal(statsCopy))

\* C18: with the background writer running and the store open, if from some
\* point on the disk accepts writes, then from some point on (the request
\* handlers make finitely many calls) stats.json holds the complete map.
C18_FailedWriteRetried == (<>[]diskOk) => <>[]OnDisk

\* the only call failed its direct write and queued a request that is still
\* pending, yet stats.json has the update: the ticker's write brought it there
C18_Witness ==
  /\ tally.started = 1
  /\ InFlight = {}
  /\ writeBuffer = 1
  /\ CurrentHits = 1
  /\ OnDisk

\* C19: a call of SetMaxCacheSize or SetMaxLinkCacheSize that has started
\* always has a next step, up to its return (where the resized cache would
\* hold at most the new limit).
C19_ResizeReturns == setter.pc # "idle" => ENABLED SetterStep

\* C20: a fan-out over more links than the semaphore admits, its parent not
\* cancelled, never stops short: while it has not returned some goroutine of
\* it has a next step (no probe waits for ever), and when it has returned
\* every probe is done and every semaphore slot is back.
C20_FanOutCompletes ==
  /\ fan.pc \in {"spawn", "wait"} => ENABLED FanStep
  /\ fan.pc = "returned" =>
       /\ \A g \in Mutators : fan.probe[g].pc = "done"
       /\ fan.semaphore = 0

\* the links of the page that survive skipping, each once
Survivors ==
  {Normalize(page.hrefs[i]) : i \in 1..(page.next - 1)} \ {<< >>, <<"#">>}

\* C21: when the links of a page are collected, InternalLinks + ExternalLinks
\* is the number of unique normalized links other than "" and "#", and the
\* links handed to the probes are the counted ones, each once.
C21_EverySurvivorCounted ==
  /\ page.InternalLinks + page.ExternalLinks = Cardinality(Survivors)
  /\ Len(page.linkURLs) = page.InternalLinks + page.ExternalLinks
  /\ \A i, j \in DOMAIN page.linkURLs : page.linkURLs[i] = page.linkURLs[j] => i = j

\* C22: once the parent context is cancelled no probe is started any more
\* (no goroutine takes a semaphore slot and goes on to check its link), the
\* fan-out has a next step up to its return, and what it returns is a
\* broken-link tally that the probes had reached.
C22_CancelStopsProbes ==
  /\ \A g \in Mutators : ~fan.probe[g].late
  /\ (fan.cancelled /\ fan.pc \in {"spawn", "wait"}) => ENABLED (FanSpawn \/ FanReturn)
  /\ fan.pc = "returned" => fan.ret.BrokenLinks <= fan.broken

RECURSIVE SumOf(_)
SumOf(f) ==
  IF DOMAIN f = {} THEN 0
  ELSE LET k == CHOOSE x \in DOMAIN f : TRUE
       IN f[k] + SumOf([x \in DOMAIN f \ {k} |-> f[x]])

\* every TrackAnalysis adds one request and one count of a URL
Consistent(b) ==
  /\ b.AnalysisRequests = SumOf(b.PopularUrls)
  /\ b.AnalysisRequests = b.TotalRequests

\* C23: what GetCurrentStats returns is a state the bucket was in at one
\* instant: with TrackAnalysis calls running, every bucket has at every
\* instant as many analysis requests as URL counts in total, and so has the
\* returned copy.
C23_CopyAtOneInstant ==
  /\ \A i \in DOMAIN heap : Consistent(heap[i])
  /\ seen.valid => Consistent(seen.copy)

\* C24: right after a sweep phase no entry that a lookup at the sweep's time
\* treats as expired (age >= TTL) is left in the swept cache.
C24_SweepLeavesNoExpired ==
  /\ (obs.kind = "sweepAnalysis" /\ sweep.pc = "link") =>
       \A k \in DOMAIN cache : sweep.now - cache[k].timestamp < cacheTTL
  /\ (obs.kind = "sweepLink" /\ sweep.pc = "idle") =>
       \A k \in DOMAIN linkCache : sweep.now - linkCache[k].timestamp < DefaultLinkCacheTTL

\* C25: when a store has just left a cache over its maximum, a sweep that
\* will trim that cache is under way (the store started one).
C25_PutStartsSweep ==
  /\ (obs.kind = "put" /\ Cardinality(DOMAIN cache) > maxCacheSize) =>
       sweep.pc = "analysis"
  /\ (obs.kind = "linkret" /\ Cardinality(DOMAIN linkCache) > maxLinkCacheSize) =>
       sweep.pc \in {"analysis", "link"}

\* C26: when this month's bucket did not exist at the first calls, concurrent
\* IncrementStats(1,0,0,0) calls still lose nothing: once none is in flight
\* the bucket under the month key holds as many analysis hits as calls made.
C26_FirstCallsAllCounted ==
  (tally.lazy /\ InFlight = {}) => CurrentHits = tally.started

\* C27: every step that changes a bucket leaves it with LastUpdated at the
\* time of the step: the update of IncrementStats, the merge of load with a
\* bucket in memory, and the merge of the legacy migration.
C27_LastUpdatedAtMutation ==
  [][/\ \A g \in Mutators :
          (call[g].pc = "update" /\ call'[g].pc = "check") =>
            heap'[call[g].ptr].LastUpdated = now
     /\ (call["ctor"].pc = "load" /\ call'["ctor"].pc = "migrate") =>
          \A m \in DOMAIN stats \cap DOMAIN stats' : heap'[stats'[m]].LastUpdated = now
     /\ (call["ctor"].pc = "merge" /\ call'["ctor"].pc = "migrated") =>
          heap'[stats'[month]].LastUpdated = now]_vars

\* C28: on whatever day of the month Cleanup runs, the bucket of the month
\* before the current one, if there was one, is still in the map after the
\* deletions.
C28_PreviousMonthKept ==
  (call["cl"].pc = "cleaned" /\ month - 1 \in DOMAIN call["cl"].data) =>
    month - 1 \in DOMAIN stats

\* what stats.json holds for month m under a json tag, 0 when it has no such month
FileCount(m, tag) ==
  IF m \in DOMAIN files.canon.body THEN Field(files.canon.body[m], tag, 0) ELSE 0

\* C29: a load that reads and decodes stats.json keeps every month that was
\* in memory before it, each counter being the value in memory plus the value
\* of the file (0 when the file has no such month).
C29_LoadMerges ==
  [][(call["ctor"].pc = "load" /\ call'["ctor"].pc = "migrate" /\ files.canon.kind = "json") =>
       \A m \in DOMAIN stats :
         /\ m \in DOMAIN stats'
         /\ heap'[stats'[m]].AnalysisCacheHits =
              heap[stats[m]].AnalysisCacheHits + FileCount(m, "analysis_hits")
         /\ heap'[stats'[m]].AnalysisRequests =
              heap[stats[m]].AnalysisRequests + FileCount(m, "analysis_requests")]_vars

\* the probes of the fan-out that hold a slot of the semaphore: past the send
\* of line 688, the deferred receive of line 689 not yet run
Probing == {g \in Mutators : fan.probe[g].pc \in {"lookup", "stats", "release"}}

\* C30: during the fan-out of one page, the number of link probes under way
\* never exceeds the capacity of the semaphore (10 in the source), and it
\* is the number of slots taken
C30_ProbesBounded ==
  /\ Cardinality(Probing) <= SemaphoreSize
  /\ Cardinality(Probing) = fan.semaphore

\* one probe holds the only slot while the goroutine of the other link is
\* blocked on the send
C30_Witness ==
  /\ fan.semaphore = SemaphoreSize
  /\ \E g, h \in Mutators : fan.probe[g].pc = "stats" /\ fan.probe[h].pc = "acquire"

\* C31: cancelling the parent stops the dispatch of goroutines for further
\* links, it does not abort a probe that was under way when it came, and the
\* tally that the fan-out returned is not changed by what probes bring back
\* after the return
C31_CancelSparesProbesInFlight ==
  [][/\ (fan.cancelled /\ fan'.round = fan.round) => fan'.wg <= fan.wg
     /\ \A g \in Mutators : ~(fan'.probe[g].aborted /\ ~fan'.probe[g].late)
     /\ (fan.pc = "returned" /\ fan'.pc = "returned") => fan'.ret = fan.ret]_vars

\* ----------------------------------------------- locks and network calls
\* Analyze calls with their page fetch, the link probes of one fan-out with
\* their IncrementStats calls, the background writer, and a caller of the
\* SetMax functions, on one analyzer and its store
NextLocks ==
  \/ AnalyzeLookup("r1", "u1")
  \/ AnalyzeFetchFail("r1")
  \/ AnalyzePut("r1")
  \/ SetMaxCacheSize(1)
  \/ SetMaxLinkCacheSize(1)
  \/ fan.round = 0 /\ FanStart
  \/ FanSpawn
  \/ FanWait
  \/ FanReturn
  \/ \E g \in Mutators : ProbeAcquire(g)
  \/ \E g \in Mutators : ProbeLookup(g)
  \/ \E g \in Mutators : ProbeStats(g)
  \/ \E g \in Mutators, accessible \in BOOLEAN : ProbeFinish(g, accessible)
  \/ \E g \in Mutators : ProbeRelease(g)
  \/ \E g \in Mutators : IncCreate(g)
  \/ \E g \in Mutators : IncUpdate(g)
  \/ \E g \in Mutators : IncCheck(g)
  \/ \E g \in Mutators : IncStamp(g)
  \/ \E g \in Mutators : IncReturn(g)
  \/ \E p \in Mutators \cup {"bg"} : SaveCopy(p)
  \/ \E p \in Mutators \cup {"bg"} : SaveOpen(p)
  \/ \E p \in Mutators \cup {"bg"} : SaveWrite(p)
  \/ \E p \in Mutators \cup {"bg"} : SaveRename(p)
  \/ \E g \in Mutators : RequestWriteFallback(g)
  \/ \E c \in {"request", "ticker"} : BgWake(c)
  \/ BgSaved

SpecLocks == InitStore /\ [][NextLocks]_vars

\* goroutine g of the fan-out has sent its HEAD request (line 782) and is
\* waiting for the answer
OnTheWire(g) == fan.probe[g].pc = "stats" /\ call[g].n = fan.round /\ call[g].pc = "idle"

\* C32: a goroutine that is in a network call, the page fetch of Analyze or
\* the HEAD request of a link probe, holds none of the three locks, and the
\* background writer holds the statistics lock at no step of save() past the
\* copy of the map: not while it writes the file
C32_NoLockAcrossNetwork ==
  /\ \A r \in Reqs : reqs[r].pc = "fetch" => r \notin {cacheMutex, linkCacheMutex, mutex}
  /\ \A g \in Mutators : OnTheWire(g) => g \notin {cacheMutex, linkCacheMutex, mutex}
  /\ call["bg"].sv # "copy" => mutex # "bg"

\* a page fetch and a link probe are under way and the background writer is
\* writing the file, while the caller of SetMaxLinkCacheSize holds the
\* link-cache lock
C32_Witness ==
  /\ reqs["r1"].pc = "fetch"
  /\ \E g \in Mutators : OnTheWire(g)
  /\ call["bg"].sv = "write"
  /\ linkCacheMutex = "setter"

\* C33: Analyze calls for one URL are not deduplicated. While a call is
\* fetching a URL another call for it starts at once, misses (the miss is
\* recorded: IncrementStats(0, 1, 0, 0)) and fetches for itself; each of the
\* calls stores its result without waiting for the other; and the entry of a
\* URL in the cache is always the one of the latest store
C33_NoDeduplication ==
  mode = "cache" =>
    /\ \A r, s \in Reqs :
         (r # s /\ reqs[s].pc = "fetch" /\ reqs[r].pc = "idle") =>
           ENABLED AnalyzeLookup(r, reqs[s].url)
    /\ \A r \in Reqs : reqs[r].pc = "fetch" => ENABLED AnalyzePut(r)
    /\ (obs.kind = "analyze" /\ ~obs.hit) =>
         /\ obs.stat = <<0, 1, 0, 0>>
         /\ \E r \in Reqs : reqs[r] = [pc |-> "fetch", url |-> obs.url]
    /\ \A u \in Urls :
         generateCacheKey(u) \in DOMAIN cache => cache[generateCacheKey(u)] = stored[u]

\* two calls are fetching the same URL, which is not in the cache, the second
\* having just missed
C33_Witness ==
  /\ reqs["r1"].pc = "fetch"
  /\ reqs["r2"] = reqs["r1"]
  /\ generateCacheKey(reqs["r1"].url) \notin DOMAIN cache
  /\ obs.kind = "analyze" /\ ~obs.hit /\ obs.url = reqs["r1"].url

\* C34: stats.json never goes back: whatever saves run side by side, no step
\* replaces its document by one with a smaller counter (the counters only
\* grow in memory, so a smaller one is an older snapshot)
C34_FileNeverRegresses ==
  [][(files.canon.kind = "json" /\ files'.canon.kind = "json") =>
       FileHits(files'.canon) >= FileHits(files.canon)]_vars

\* C35: a probe that was cut off by the cancellation of the parent analysis
\* or by the end of the link context, or that started only after it, writes
\* nothing to the link cache: a verdict of false is stored only when the
\* request ran to an outcome of its own
C35_AbortedProbeNotCached ==
  [][\A g \in Mutators :
       (fan.probe[g].pc = "stats" /\ fan'.probe[g].pc = "release" /\ fan'.probe[g].aborted) =>
         linkCache' = linkCache]_vars

\* C36: the value GetMonthlyStats returned shares nothing with the store: a
\* step that is not its holder's leaves its maps as they were (so a later
\* TrackAnalysis or TrackVisitor does), and a write of its holder to one of
\* its maps leaves the buckets of the store as they were
C36_ReturnedValueDetached ==
  [][(seen.monthly.valid /\ seen.monthly.found) =>
       /\ seen'.monthly = seen.monthly => ReturnedMaps' = ReturnedMaps
       /\ (seen'.monthly.written /\ ~seen.monthly.written) => heap' = heap]_vars

\* C37: an Analyze call that runs after Analyzer.Shutdown, or while it runs,
\* does not panic, and the caches that Shutdown cleared stay empty
C37_AnalyzeAfterShutdown ==
  /\ \A r \in Reqs : reqs[r].pc # "panicked"
  /\ \A c \in Checkers : chk[c].pc # "panicked"
  /\ "cache" \in analyzerShutdown.nilMaps => cache = << >>
  /\ "linkCache" \in analyzerShutdown.nilMaps => linkCache = << >>

\* C38: the tally of broken links is never read or written outside its mutex
\* while a probe goroutine that can still write it is running: when the
\* caller read it for the score, also on the path where the parent context
\* was done, no such goroutine was left
C38_TallyUnderMutex == fan.pc = "returned" => fan.racing = {}

C40_LegacyTrackReturns ==
  \A t \in Trackers :
    /\ statistics.pc[t] \in {"trackSave", "return"} => ENABLED StatisticsStep(t)
    /\ statistics.pc[t] = "idle" => statistics.mutex # t

====
